---- MODULE Spec2Model ----
(***************************************************************************)
(* A model of the lexer of src/src/libsyntax/parse/lexer/mod.rs            *)
(* (StringReader): the source cursor, the trivia, literal and identifier   *)
(* scanners, the token dispatcher and the one-token peek buffer.           *)
(*                                                                         *)
(* Representation.  The source text is a sequence of bytes.  A byte is a   *)
(* string: an ASCII character stands for itself, the lead byte of a        *)
(* multi-byte scalar is the scalar's name ("U+00E9") and each of its       *)
(* continuation bytes is "cont".  A BytePos is a natural number, an        *)
(* Option<T> is the empty sequence (None) or a one-element sequence        *)
(* (Some), except Option<char>, whose None is the string "None".  A        *)
(* Symbol is the interned text itself (a sequence of bytes), so two        *)
(* symbols are equal iff their texts are.                                  *)
(*                                                                         *)
(* The scanners are written in state-passing style: each takes the         *)
(* reader's mutable part as a record `s` (pos, next_pos, ch, end_src_index,*)
(* the diagnostics emitted so far, fatal_errs, raw_identifier_spans and    *)
(* whether FatalError was raised) and returns the record after the call,   *)
(* with the value returned in a field beside it.  A loop of the source is  *)
(* a RECURSIVE operator.  FatalError.raise() unwinds: every caller tests   *)
(* `abort` and returns at once.                                            *)
(***************************************************************************)
EXTENDS Integers, Sequences, FiniteSets, TLC

\* ------------------------------------------------------------- bounds
\* Longest source text drawn by Init.
MaxLen == 3
\* How many times the stream may return Eof before the model stops calling.
MaxEof == 2
\* How many times a caller may drain or emit the buffered fatal diagnostics
\* before it gives up.
MaxDrain == 1

\* The longest text after the opening marker of a block comment.
MaxBlockBody == 6

\* The longest text after the two slashes of a line comment.
MaxLineBody == 5

\* The longest text after the three characters that open a block doc
\* comment.
MaxDocBody == 5

\* The longest source of SpecShebang.
MaxShebangLen == 4

\* The longest text after the opening single quote of SpecQuotes.
MaxQuoteBody == 4

\* The longest text after the opening quote of a raw string.
MaxRawBody == 5

\* The longest text after the `r#` of SpecRawIdents.
MaxRawIdentBody == 4

\* The longest text after the literal of SpecSuffixes.
MaxSuffixLen == 3

\* The longest text after the first characters of the number of SpecNumbers.
MaxNumberBody == 4

\* The longest text after the first punctuation character of SpecPunct.
MaxPunctBody == 2

\* The longest text after the opening double quote of SpecStrings.
MaxStringBody == 4

\* The longest text between the markers of the comment of
\* SpecCarriageReturns.
MaxCrBody == 5

\* The longest text after the flawed token of SpecRecoverable.
MaxAfterFlaw == 2

\* --------------------------------------------------------- characters
None == "None"
NUL == "NUL"
Cont == "cont"

Lower ==
    {"a","b","c","d","e","f","g","h","i","j","k","l","m",
     "n","o","p","q","r","s","t","u","v","w","x","y","z"}
Upper ==
    {"A","B","C","D","E","F","G","H","I","J","K","L","M",
     "N","O","P","Q","R","S","T","U","V","W","X","Y","Z"}
DecDigits == {"0","1","2","3","4","5","6","7","8","9"}

\* Non-ASCII scalars of the model, by property.
\*   U+00E9  e-acute        2 bytes  XID_Start, XID_Continue
\*   U+00B2  superscript 2  2 bytes  numeric (No), not XID
\*   U+0085  next line      2 bytes  Pattern_White_Space
\*   U+20AC  euro sign      3 bytes  none of these
\*   U+2212  minus sign     3 bytes  none of these; a confusable of `-`
\*   U+2028  line separator 3 bytes  Pattern_White_Space
TwoByte == {"U+00E9", "U+00B2", "U+0085"}
ThreeByte == {"U+20AC", "U+2212", "U+2028"}
NonAscii == TwoByte \cup ThreeByte
XidStart == {"U+00E9"}
XidContinue == {"U+00E9"}
Confusables == {"U+2212"}

len_utf8(c) ==
    IF c \in TwoByte THEN 2 ELSE IF c \in ThreeByte THEN 3 ELSE 1

\* crate fn is_pattern_whitespace(c: Option<char>)
is_pattern_whitespace(c) ==
    c \in {" ", "\t", "\n", "\r", "U+0085", "U+2028"}

\* fn in_range / fn is_dec_digit
is_dec_digit(c) == c \in DecDigits

\* char::is_numeric of the standard library
is_numeric(c) == c \in DecDigits \cup {"U+00B2"}

\* fn ident_start(c: Option<char>)
ident_start(c) ==
    \/ c \in Lower
    \/ c \in Upper
    \/ c = "_"
    \/ (c \in NonAscii /\ c \in XidStart)

\* fn ident_continue(c: Option<char>)
ident_continue(c) ==
    \/ c \in Lower
    \/ c \in Upper
    \/ c \in DecDigits
    \/ c = "_"
    \/ (c \in NonAscii /\ c \in XidContinue)

DigitValue ==
    [c \in DecDigits \cup {"a","b","c","d","e","f","A","B","C","D","E","F"} |->
        CASE c = "0" -> 0 [] c = "1" -> 1 [] c = "2" -> 2 [] c = "3" -> 3
          [] c = "4" -> 4 [] c = "5" -> 5 [] c = "6" -> 6 [] c = "7" -> 7
          [] c = "8" -> 8 [] c = "9" -> 9
          [] c \in {"a","A"} -> 10 [] c \in {"b","B"} -> 11
          [] c \in {"c","C"} -> 12 [] c \in {"d","D"} -> 13
          [] c \in {"e","E"} -> 14 [] c \in {"f","F"} -> 15]

\* char::to_digit(radix).is_some()
is_digit(c, radix) ==
    c \in DOMAIN DigitValue /\ DigitValue[c] < radix

\* unicode_chars::check_for_substitution: whether `c` is a known confusable
\* of an ASCII character (the table holds non-ASCII scalars only).
check_for_substitution(c) == c \in Confusables

\* ------------------------------------------------------------- spans
NO_EXPANSION == "NO_EXPANSION"
Span(lo, hi, ctxt) == [lo |-> lo, hi |-> hi, ctxt |-> ctxt]
DUMMY_SP == Span(0, 0, NO_EXPANSION)

\* ------------------------------------------------------------ tokens
\* token::Token.  One record shape for every kind:
\*   kind   the variant (Eof, Whitespace, Ident, Literal, BinOp, ...)
\*   sub    the DelimToken / BinOpToken / token::Lit variant, or ""
\*   sym    the interned text of an identifier, literal, doc comment, shebang
\*   n      the hash count of a raw (byte) string
\*   raw    is_raw of an Ident
\*   suffix the literal's suffix, an Option<Symbol>
\*   isp    the span of the ast::Ident of an Ident or Lifetime
Tok(kind, sub, sym, n, raw, suffix, isp) ==
    [kind |-> kind, sub |-> sub, sym |-> sym, n |-> n, raw |-> raw,
     suffix |-> suffix, isp |-> isp]
Plain(kind) == Tok(kind, "", <<>>, 0, FALSE, <<>>, DUMMY_SP)
Sub(kind, sub) == Tok(kind, sub, <<>>, 0, FALSE, <<>>, DUMMY_SP)
Named(kind, sym) == Tok(kind, "", sym, 0, FALSE, <<>>, DUMMY_SP)
Literal(lit, suffix) ==
    Tok("Literal", lit.sub, lit.sym, lit.n, FALSE, suffix, DUMMY_SP)
Lit(sub, sym, n) == [sub |-> sub, sym |-> sym, n |-> n]

\* struct TokenAndSpan
TokenAndSpan(tok, sp) == [tok |-> tok, sp |-> sp]

\* ------------------------------------------------------------- state
VARIABLES
    src,                  \* source_file.src: the bytes of the source text
    start_pos,            \* source_file.start_pos
    override_span,        \* Option<Span>
    end_src_index,        \* stop reading src at this index
    next_pos,             \* offset of the next character to read
    pos,                  \* offset of the current character
    ch,                   \* the current character, Option<char>
    peek_tok,             \* cached next token
    peek_span,            \* cached next span
    peek_span_src_raw,    \* cached next raw span
    fatal_errs,           \* buffered fatal diagnostics, Vec<DiagnosticBuilder>
    token,                \* the token of the last real_token
    span,                 \* the span of the last real_token
    span_src_raw,         \* the raw span, not taking override_span into account
    raw_identifier_spans, \* sess.raw_identifier_spans
    diags,                \* what sess.span_diagnostic has emitted so far
    phase,                \* "raw": built by new_raw_internal; "ready": a reader
                          \* the caller holds; "no_reader": the constructor
                          \* returned Err; "raised": FatalError unwound the
                          \* call; or the message of the panic that ended
                          \* the call
    last_call,            \* the last operation called
    ret,                  \* what it returned: Result<TokenAndSpan, ()>
    returned,             \* every Ok(TokenAndSpan) of try_next_token so far
    buffered,             \* what the last buffer_fatal_errors returned
    drained,              \* how many times the caller drained or emitted
    retokenized,          \* the span retokenize is called with, if it is
    hashes                \* hash_count of the raw string scanner at work

vars ==
    <<src, start_pos, override_span, end_src_index, next_pos, pos, ch,
      peek_tok, peek_span, peek_span_src_raw, fatal_errs, token, span,
      span_src_raw, raw_identifier_spans, diags, phase, last_call, ret,
      returned, buffered, drained, retokenized, hashes>>

\* source_file.end_pos
end_pos == start_pos + Len(src)

\* Result<TokenAndSpan, ()> and the value of a call that returned nothing
Ok(t) == [kind |-> "Ok", tok |-> t.tok, sp |-> t.sp]
Err == [kind |-> "Err", tok |-> Plain("Whitespace"), sp |-> DUMMY_SP]
NoRet == [kind |-> "None", tok |-> Plain("Whitespace"), sp |-> DUMMY_SP]

\* A diagnostic: its level, its message (shortened) and its span.
Diag(level, msg, sp) == [level |-> level, msg |-> msg, sp |-> sp]

\* The part of the reader the scanners read and write (&mut self).
Self ==
    [pos |-> pos, next_pos |-> next_pos, ch |-> ch, end |-> end_src_index,
     diags |-> diags, fatal_errs |-> fatal_errs,
     raw_ids |-> raw_identifier_spans, abort |-> ""]

\* A value returned beside the reader.
Val(s, v) == [s |-> s, v |-> v]

\* mk_sp_and_raw with the override span left out of the first component.
mk_sp_and_raw_without_override(lo, hi) ==
    <<Span(lo, hi, NO_EXPANSION), Span(lo, hi, NO_EXPANSION)>>

\* ------------------------------------------------------------- spans
\* fn mk_sp_and_raw(&self, lo, hi) -> (Span, Span)
mk_sp_and_raw(lo, hi) ==
    LET raw == Span(lo, hi, NO_EXPANSION)
        real == IF override_span = <<>> THEN raw ELSE override_span[1]
    IN  <<real, raw>>

\* fn mk_sp(&self, lo, hi) -> Span
mk_sp(lo, hi) == mk_sp_and_raw(lo, hi)[1]

\* fn mk_ident(&self, string) -> Ident: the name and the ident's span
mk_ident_span ==
    IF override_span = <<>> THEN DUMMY_SP ELSE override_span[1]

\* An err_span_ that unwinds after it has reported.
err_span_raising(s, lo, hi, m) ==
    [s EXCEPT !.diags = Append(@, Diag("error", m, mk_sp(lo, hi))),
              !.abort = "FatalError"]

\* ------------------------------------------------------- diagnostics
\* fn err_span_: a recoverable error, emitted at once
err_span_(s, lo, hi, m) ==
    [s EXCEPT !.diags = Append(@, Diag("error", m, mk_sp(lo, hi)))]

\* fn fatal_span_(..).raise(): Handler::span_fatal emits the diagnostic and
\* FatalError.raise() unwinds
fatal_span_raise(s, lo, hi, m) ==
    [s EXCEPT !.diags = Append(@, Diag("fatal", m, mk_sp(lo, hi))),
              !.abort = "FatalError"]

\* fn fail_unterminated_raw_string: err.emit(); FatalError.raise()
fail_unterminated_raw_string(s, p, hash_count) ==
    fatal_span_raise(s, p, p, "unterminated raw string")

\* unreachable!(), expect, assert!: a panic
panic(s, m) == [s EXCEPT !.abort = m]

\* ------------------------------------------------------------ cursor
\* fn src_index(&self, pos) -> usize
src_index(p) == p - start_pos

\* fn char_at(s: &str, byte: usize) -> char
char_at(byte) == src[byte + 1]

\* fn with_str_from_to: the source text in [start, end)
with_str_from_to(start, end) ==
    SubSeq(src, src_index(start) + 1, src_index(end))

\* fn is_eof(&self)
is_eof(s) == s.ch = None

\* fn ch_is(&self, c)
ch_is(s, c) == s.ch = c

\* Option::unwrap_or('\0') of the current character
ch_or_nul(s) == IF s.ch = None THEN NUL ELSE s.ch

\* bump advancing next_pos by one byte whatever the character read.
bump_one_byte(s) ==
    IF src_index(s.next_pos) < s.end
    THEN [s EXCEPT !.ch = char_at(src_index(s.next_pos)),
                   !.pos = s.next_pos,
                   !.next_pos = s.next_pos + 1]
    ELSE [s EXCEPT !.ch = None, !.pos = s.next_pos]

\* bump reading the next character without moving pos onto it.
bump_keeping_pos(s) ==
    IF src_index(s.next_pos) < s.end
    THEN [s EXCEPT !.ch = char_at(src_index(s.next_pos)),
                   !.next_pos = s.next_pos
                                    + len_utf8(char_at(src_index(s.next_pos)))]
    ELSE [s EXCEPT !.ch = None]

\* crate fn bump(&mut self): advance by one character
bump(s) ==
    LET next_src_index == src_index(s.next_pos)
    IN  IF next_src_index < s.end
        THEN LET next_ch == char_at(next_src_index)
             IN  [s EXCEPT !.ch = next_ch,
                           !.pos = s.next_pos,
                           !.next_pos = s.next_pos + len_utf8(next_ch)]
        ELSE [s EXCEPT !.ch = None, !.pos = s.next_pos]

\* fn nextch(&self) -> Option<char>
nextch(s) ==
    LET next_src_index == src_index(s.next_pos)
    IN  IF next_src_index < s.end THEN char_at(next_src_index) ELSE None

\* fn nextch_is(&self, c)
nextch_is(s, c) == nextch(s) = c

\* fn nextnextch(&self) -> Option<char>
nextnextch(s) ==
    LET next_src_index == src_index(s.next_pos)
    IN  IF next_src_index < s.end
        THEN LET next_next_src_index ==
                     next_src_index + len_utf8(char_at(next_src_index))
             IN  IF next_next_src_index < s.end
                 THEN char_at(next_next_src_index)
                 ELSE None
        ELSE None

\* fn nextnextch_is(&self, c)
nextnextch_is(s, c) == nextnextch(s) = c

\* `while ident_continue(self.ch) { self.bump(); }`
RECURSIVE eat_ident_continue(_)
eat_ident_continue(s) ==
    IF ident_continue(s.ch) THEN eat_ident_continue(bump(s)) ELSE s

\* The closure of scan_optional_raw_name: the name scanned from `start`,
\* or None with a warning when it is `_`.
raw_name_from(s1, start) ==
    IF with_str_from_to(start, s1.pos) = <<"_">>
    THEN Val([s1 EXCEPT !.diags = Append(@,
                 Diag("warning", "underscore literal suffix is not allowed",
                      mk_sp(start, s1.pos)))],
             <<>>)
    ELSE Val(s1, <<with_str_from_to(start, s1.pos)>>)

\* A suffix scanner that never finds a suffix.
scan_no_raw_name(s) == Val(s, <<>>)

\* fn scan_optional_raw_name(&mut self) -> Option<ast::Name>
scan_optional_raw_name(s) ==
    IF ~ident_start(s.ch)
    THEN Val(s, <<>>)
    ELSE raw_name_from(eat_ident_continue(bump(s)), s.pos)

\* ------------------------------------------------------------ trivia
\* fn is_doc_comment(s: &str)
is_doc_comment(s) ==
    \/ /\ Len(s) >= 3
       /\ SubSeq(s, 1, 3) = <<"/", "/", "/">>
       /\ (IF Len(s) >= 4 THEN s[4] ELSE " ") # "/"
    \/ /\ Len(s) >= 3
       /\ SubSeq(s, 1, 3) = <<"/", "/", "!">>

\* is_block_doc_comment without the test of the length.
is_block_doc_comment_of_any_length(s) ==
    \/ /\ Len(s) >= 3
       /\ SubSeq(s, 1, 3) = <<"/", "*", "*">>
       /\ (IF Len(s) >= 4 THEN s[4] ELSE " ") # "*"
    \/ /\ Len(s) >= 3
       /\ SubSeq(s, 1, 3) = <<"/", "*", "!">>

\* fn is_block_doc_comment(s: &str)
is_block_doc_comment(s) ==
    /\ \/ /\ Len(s) >= 3
          /\ SubSeq(s, 1, 3) = <<"/", "*", "*">>
          /\ (IF Len(s) >= 4 THEN s[4] ELSE " ") # "*"
       \/ /\ Len(s) >= 3
          /\ SubSeq(s, 1, 3) = <<"/", "*", "!">>
    /\ Len(s) >= 5

\* Whether the character of `str` at byte index i is `c` (Peekable::peek).
peek_is(str, i, c) == i < Len(str) /\ str[i + 1] = c

\* An inner fn of translate_crlf that reports no carriage return after the
\* first pair.
RECURSIVE translate_crlf_silent(_, _, _, _, _, _, _)
translate_crlf_silent(s, start, str, j, i, buf, errmsg) ==
    IF i >= Len(str)
    THEN Val(s, IF j < Len(str)
                THEN buf \o SubSeq(str, j + 1, Len(str))
                ELSE buf)
    ELSE IF str[i + 1] = "\r"
         THEN translate_crlf_silent(
                  s, start, str, i + 1, i + 1,
                  IF j < i THEN buf \o SubSeq(str, j + 1, i) ELSE buf, errmsg)
         ELSE translate_crlf_silent(
                  s, start, str, j, i + len_utf8(str[i + 1]), buf, errmsg)

\* fn translate_crlf_ (the inner fn): `j` is the start of the text not yet
\* copied, `i` the byte index of the next character of the iterator.
RECURSIVE translate_crlf_(_, _, _, _, _, _, _)
translate_crlf_(s, start, str, j, i, buf, errmsg) ==
    IF i >= Len(str)
    THEN Val(s, IF j < Len(str)
                THEN buf \o SubSeq(str, j + 1, Len(str))
                ELSE buf)
    ELSE LET c == str[i + 1]
             next == i + len_utf8(c)
         IN  IF c = "\r"
             THEN LET buf1 == IF j < i
                              THEN buf \o SubSeq(str, j + 1, i)
                              ELSE buf
                      s1 == IF ~peek_is(str, next, "\n")
                            THEN err_span_(s, start + i, start + next, errmsg)
                            ELSE s
                  IN  translate_crlf_(s1, start, str, next, next, buf1, errmsg)
             ELSE translate_crlf_(s, start, str, j, next, buf, errmsg)

\* The `while let` loop of translate_crlf, up to the first CRLF pair.
RECURSIVE translate_crlf_scan(_, _, _, _, _)
translate_crlf_scan(s, start, str, i, errmsg) ==
    IF i >= Len(str)
    THEN Val(s, str)
    ELSE LET c == str[i + 1]
             next == i + len_utf8(c)
         IN  IF c = "\r"
             THEN IF peek_is(str, next, "\n")
                  THEN translate_crlf_(s, start, str, next, next,
                                       SubSeq(str, 1, next - 1), errmsg)
                  ELSE translate_crlf_scan(
                           err_span_(s, start + i, start + next, errmsg),
                           start, str, next, errmsg)
             ELSE translate_crlf_scan(s, start, str, next, errmsg)

\* fn translate_crlf: CRLF to LF, an error on each bare CR
translate_crlf(s, start, str, errmsg) ==
    translate_crlf_scan(s, start, str, 0, errmsg)

\* A line comment loop that stops at every carriage return.
RECURSIVE line_comment_loop_to_cr(_, _)
line_comment_loop_to_cr(s, doc_comment) ==
    IF is_eof(s) \/ s.ch = "\n" \/ s.ch = "\r"
    THEN s
    ELSE line_comment_loop_to_cr(bump(s), doc_comment)

\* The `while !self.is_eof()` loop of a line comment.
RECURSIVE line_comment_loop(_, _)
line_comment_loop(s, doc_comment) ==
    IF is_eof(s) \/ s.ch = "\n"
    THEN s
    ELSE IF s.ch = "\r"
         THEN IF nextch_is(s, "\n")
              THEN s
              ELSE line_comment_loop(
                       bump(IF doc_comment
                            THEN err_span_(s, s.pos, s.next_pos,
                                     "bare CR not allowed in doc-comment")
                            ELSE s),
                       doc_comment)
         ELSE line_comment_loop(bump(s), doc_comment)

\* A block comment loop that steps over a marker by one character, so that
\* the second character of a marker may start the next one.
RECURSIVE block_comment_loop_overlapping(_, _, _, _, _)
block_comment_loop_overlapping(s, level, has_cr, start_bpos, is_doc) ==
    IF level <= 0
    THEN Val(s, has_cr)
    ELSE IF is_eof(s)
         THEN Val(fatal_span_raise(s, start_bpos, s.pos,
                      IF is_doc THEN "unterminated block doc-comment"
                                ELSE "unterminated block comment"),
                  has_cr)
         ELSE IF s.ch = "/" /\ nextch_is(s, "*")
              THEN block_comment_loop_overlapping(bump(s), level + 1, has_cr,
                                                  start_bpos, is_doc)
              ELSE IF s.ch = "*" /\ nextch_is(s, "/")
                   THEN block_comment_loop_overlapping(
                            IF level = 1 THEN bump(bump(s)) ELSE bump(s),
                            level - 1, has_cr, start_bpos, is_doc)
                   ELSE block_comment_loop_overlapping(
                            bump(s), level, has_cr \/ s.ch = "\r",
                            start_bpos, is_doc)

\* The `while level > 0` loop of scan_block_comment; returns has_cr.
RECURSIVE block_comment_loop(_, _, _, _, _)
block_comment_loop(s, level, has_cr, start_bpos, is_doc) ==
    IF level <= 0
    THEN Val(s, has_cr)
    ELSE IF is_eof(s)
         THEN Val(fatal_span_raise(s, start_bpos, s.pos,
                      IF is_doc THEN "unterminated block doc-comment"
                                ELSE "unterminated block comment"),
                  has_cr)
         ELSE IF s.ch = "/" /\ nextch_is(s, "*")
              THEN block_comment_loop(bump(bump(s)), level + 1, has_cr,
                                      start_bpos, is_doc)
              ELSE IF s.ch = "*" /\ nextch_is(s, "/")
                   THEN block_comment_loop(bump(bump(s)), level - 1, has_cr,
                                           start_bpos, is_doc)
                   ELSE block_comment_loop(bump(s), level,
                                           has_cr \/ s.ch = "\r",
                                           start_bpos, is_doc)

\* token::DocComment(Symbol::intern(string)) with its span; `t` is the
\* reader and the text to intern.
doc_comment_token(t, lo, hi) ==
    Val(t.s, <<TokenAndSpan(Named("DocComment", t.v), mk_sp(lo, hi))>>)

\* The closure of scan_block_comment: the token of the comment that the
\* loop `r` (the reader and has_cr) has scanned from start_bpos.
block_comment_token(r, start_bpos) ==
    IF r.s.abort # ""
    THEN Val(r.s, <<>>)
    ELSE IF is_block_doc_comment(with_str_from_to(start_bpos, r.s.pos))
         THEN IF r.v
              THEN doc_comment_token(
                       translate_crlf(r.s, start_bpos,
                           with_str_from_to(start_bpos, r.s.pos),
                           "bare CR not allowed in block doc-comment"),
                       start_bpos, r.s.pos)
              ELSE doc_comment_token(
                       Val(r.s, with_str_from_to(start_bpos, r.s.pos)),
                       start_bpos, r.s.pos)
         ELSE Val(r.s, <<TokenAndSpan(Plain("Comment"),
                                      mk_sp(start_bpos, r.s.pos))>>)

\* fn scan_block_comment(&mut self) -> Option<TokenAndSpan>
scan_block_comment(s) ==
    block_comment_token(
        block_comment_loop(s, 1, FALSE, s.pos - 2,
                           ch_is(s, "*") \/ ch_is(s, "!")),
        s.pos - 2)

\* `while !self.ch_is('\n') && !self.is_eof() { self.bump(); }`
RECURSIVE skip_to_eol(_)
skip_to_eol(s) ==
    IF ~ch_is(s, "\n") /\ ~is_eof(s) THEN skip_to_eol(bump(s)) ELSE s

\* char::is_whitespace, on the characters of the model
is_whitespace(c) == c \in {" ", "\t", "\n", "\r", "U+0085", "U+2028"}

\* The token of a line comment scanned from start_bpos up to s3.pos.
line_comment_token(s3, start_bpos, doc_comment) ==
    IF doc_comment
    THEN doc_comment_token(Val(s3, with_str_from_to(start_bpos, s3.pos)),
                           start_bpos, s3.pos)
    ELSE Val(s3, <<TokenAndSpan(Plain("Comment"), mk_sp(start_bpos, s3.pos))>>)

\* The line comment arm deciding on the third character alone.
scan_line_comment_on_third(s2) ==
    line_comment_token(
        line_comment_loop(s2, ch_is(s2, "/") \/ ch_is(s2, "!")),
        s2.pos - 2, ch_is(s2, "/") \/ ch_is(s2, "!"))

\* The `Some('/')` arm of scan_comment, entered after the two bumps.
scan_line_comment(s2) ==
    LET doc_comment ==
            \/ (ch_is(s2, "/") /\ ~nextch_is(s2, "/"))
            \/ ch_is(s2, "!")
    IN  line_comment_token(line_comment_loop(s2, doc_comment),
                           s2.pos - 2, doc_comment)

\* The shebang arm of scan_comment.
shebang_token(s1, start) ==
    Val(s1, <<TokenAndSpan(Named("Shebang", with_str_from_to(start, s1.pos)),
                           mk_sp(start, s1.pos))>>)

\* scan_comment taking a shebang wherever the cursor is.
scan_comment_at_any_offset(s) ==
    IF ch_is(s, "/")
    THEN IF nextch(s) = "/"
         THEN scan_line_comment(bump(bump(s)))
         ELSE IF nextch(s) = "*"
              THEN scan_block_comment(bump(bump(s)))
              ELSE Val(s, <<>>)
    ELSE IF ch_is(s, "#") /\ nextch_is(s, "!") /\ ~nextnextch_is(s, "[")
         THEN shebang_token(skip_to_eol(s), s.pos)
         ELSE Val(s, <<>>)

\* scan_comment after its check of the precondition.
scan_comment_at(s) ==
    IF ch_is(s, "/")
    THEN IF nextch(s) = "/"
         THEN scan_line_comment(bump(bump(s)))
         ELSE IF nextch(s) = "*"
              THEN scan_block_comment(bump(bump(s)))
              ELSE Val(s, <<>>)
    ELSE IF ch_is(s, "#")
         THEN IF nextch_is(s, "!")
              THEN IF nextnextch_is(s, "[")
                   THEN Val(s, <<>>)
                   ELSE IF s.pos = start_pos
                        THEN shebang_token(skip_to_eol(s), s.pos)
                        ELSE Val(s, <<>>)
              ELSE Val(s, <<>>)
         ELSE Val(s, <<>>)

\* fn scan_comment(&mut self) -> Option<TokenAndSpan>
scan_comment(s0) ==
    scan_comment_at(
        IF s0.ch # None /\ is_whitespace(s0.ch)
        THEN [s0 EXCEPT !.diags = Append(@, Diag("error",
                  "called consume_any_line_comment, but there was whitespace",
                  mk_sp(s0.pos, s0.pos)))]
        ELSE s0)

\* A whitespace loop that consumes nothing.
eat_whitespace_nothing(s) == s

\* `while is_pattern_whitespace(self.ch) { self.bump(); }`
RECURSIVE eat_whitespace(_)
eat_whitespace(s) ==
    IF is_pattern_whitespace(s.ch) THEN eat_whitespace(bump(s)) ELSE s

\* The Whitespace token scanned from start_bpos up to s1.pos.
whitespace_token(s1, start_bpos) ==
    Val(s1, <<TokenAndSpan(Plain("Whitespace"), mk_sp(start_bpos, s1.pos))>>)

\* fn scan_whitespace_or_comment(&mut self) -> Option<TokenAndSpan>
scan_whitespace_or_comment(s) ==
    IF ch_or_nul(s) \in {"/", "#"}
    THEN scan_comment(s)
    ELSE IF is_pattern_whitespace(ch_or_nul(s))
         THEN whitespace_token(eat_whitespace(s), s.pos)
         ELSE Val(s, <<>>)

\* ----------------------------------------------------------- numbers
\* The `loop` of scan_digits; `len` counts the digits seen so far.
RECURSIVE scan_digits_loop(_, _, _, _)
scan_digits_loop(s, real_radix, scan_radix, len) ==
    IF s.ch = "_"
    THEN scan_digits_loop(bump(s), real_radix, scan_radix, len)
    ELSE IF is_digit(s.ch, scan_radix)
         THEN LET s1 == IF ~is_digit(s.ch, real_radix)
                        THEN err_span_(s, s.pos, s.next_pos,
                                 "invalid digit for a base N literal")
                        ELSE s
              IN  scan_digits_loop(bump(s1), real_radix, scan_radix, len + 1)
         ELSE Val(s, len)

\* fn scan_digits(&mut self, real_radix, scan_radix) -> usize
scan_digits(s, real_radix, scan_radix) ==
    IF real_radix <= scan_radix
    THEN scan_digits_loop(s, real_radix, scan_radix, 0)
    ELSE Val(panic(s, "assertion failed: real_radix <= scan_radix"), 0)

\* The end of scan_float_exponent: `r` is what scan_digits returned for the
\* digits of the exponent.
exponent_digits(r) ==
    IF r.v = 0
    THEN [(IF r.s.ch # None /\ check_for_substitution(r.s.ch)
           THEN scan_digits(bump(r.s), 10, 10).s
           ELSE r.s)
          EXCEPT !.diags = Append(@,
              Diag("fatal", "expected at least one digit in exponent",
                   mk_sp(r.s.pos, r.s.next_pos)))]
    ELSE r.s

\* `if self.ch_is('-') || self.ch_is('+') { self.bump(); }`
skip_sign(s1) ==
    IF ch_is(s1, "-") \/ ch_is(s1, "+") THEN bump(s1) ELSE s1

\* fn scan_float_exponent(&mut self)
scan_float_exponent(s) ==
    IF ch_is(s, "e") \/ ch_is(s, "E")
    THEN exponent_digits(scan_digits(skip_sign(bump(s)), 10, 10))
    ELSE s

\* fn check_float_base(&mut self, start_bpos, last_bpos, base)
check_float_base(s, start_bpos, last_bpos, base) ==
    IF base \in {16, 8, 2}
    THEN err_span_(s, start_bpos, last_bpos,
                   IF base = 16
                   THEN "hexadecimal float literal is not supported"
                   ELSE IF base = 8
                        THEN "octal float literal is not supported"
                        ELSE "binary float literal is not supported")
    ELSE s

\* `token::Float(self.name_from(start_bpos))` after check_float_base
float_lit(s3, start_bpos) ==
    Val(s3, Lit("Float", with_str_from_to(start_bpos, s3.pos), 0))

\* `let pos = self.pos; self.check_float_base(start_bpos, pos, base);` and
\* the Float literal
checked_float(s2, start_bpos, base) ==
    float_lit(check_float_base(s2, start_bpos, s2.pos, base), start_bpos)

\* The fraction of a float, entered after the bump over the dot.
scan_fraction(s1) ==
    IF is_digit(ch_or_nul(s1), 10)
    THEN scan_float_exponent(scan_digits(s1, 10, 10).s)
    ELSE s1

\* What the first part of scan_number finds: the reader, the base, the
\* number of digits, and whether the literal is just a `0` (the early return).
NumHead(r, base, more, just_zero) ==
    [s |-> r.s, base |-> base, num_digits |-> r.v + more,
     just_zero |-> just_zero]

\* A first part of scan_number that counts the base prefix as a digit.
scan_number_head_counting_prefix(s1, c) ==
    IF c = "0"
    THEN IF ch_or_nul(s1) = "b"
         THEN NumHead(scan_digits(bump(s1), 2, 10), 2, 1, FALSE)
         ELSE IF ch_or_nul(s1) = "o"
         THEN NumHead(scan_digits(bump(s1), 8, 10), 8, 1, FALSE)
         ELSE IF ch_or_nul(s1) = "x"
         THEN NumHead(scan_digits(bump(s1), 16, 16), 16, 1, FALSE)
         ELSE IF ch_or_nul(s1) \in DecDigits \cup {"_", ".", "e", "E"}
         THEN NumHead(scan_digits(s1, 10, 10), 10, 1, FALSE)
         ELSE NumHead(Val(s1, 0), 10, 1, TRUE)
    ELSE IF is_digit(c, 10)
         THEN NumHead(scan_digits(s1, 10, 10), 10, 1, FALSE)
         ELSE NumHead(Val(s1, 0), 10, 0, FALSE)

\* `let num_digits = if c == '0' { ... } else if c.is_digit(10) { ... } else
\* { 0 }` of scan_number, entered after the bump over `c`.
scan_number_head(s1, c) ==
    IF c = "0"
    THEN IF ch_or_nul(s1) = "b"
         THEN NumHead(scan_digits(bump(s1), 2, 10), 2, 0, FALSE)
         ELSE IF ch_or_nul(s1) = "o"
         THEN NumHead(scan_digits(bump(s1), 8, 10), 8, 0, FALSE)
         ELSE IF ch_or_nul(s1) = "x"
         THEN NumHead(scan_digits(bump(s1), 16, 16), 16, 0, FALSE)
         ELSE IF ch_or_nul(s1) \in DecDigits \cup {"_", ".", "e", "E"}
         THEN NumHead(scan_digits(s1, 10, 10), 10, 1, FALSE)
         ELSE NumHead(Val(s1, 0), 10, 1, TRUE)
    ELSE IF is_digit(c, 10)
         THEN NumHead(scan_digits(s1, 10, 10), 10, 1, FALSE)
         ELSE NumHead(Val(s1, 0), 10, 0, FALSE)

\* A rest of scan_number that takes every dot for the dot of a float.
scan_number_tail_greedy(h, start_bpos) ==
    IF h.just_zero
    THEN Val(h.s, Lit("Integer", with_str_from_to(start_bpos, h.s.pos), 0))
    ELSE IF h.num_digits = 0
    THEN Val(err_span_(h.s, start_bpos, h.s.pos,
                       "no valid digits found for number"),
             Lit("Integer", <<"0">>, 0))
    ELSE IF ch_is(h.s, ".")
    THEN checked_float(scan_fraction(bump(h.s)), start_bpos, h.base)
    ELSE IF ch_is(h.s, "e") \/ ch_is(h.s, "E")
    THEN checked_float(scan_float_exponent(h.s), start_bpos, h.base)
    ELSE Val(h.s, Lit("Integer", with_str_from_to(start_bpos, h.s.pos), 0))

\* The rest of scan_number, after the digits of the integer part.
scan_number_tail(h, start_bpos) ==
    IF h.just_zero
    THEN Val(h.s, Lit("Integer", with_str_from_to(start_bpos, h.s.pos), 0))
    ELSE IF h.num_digits = 0
    THEN Val(err_span_(h.s, start_bpos, h.s.pos,
                       "no valid digits found for number"),
             Lit("Integer", <<"0">>, 0))
    ELSE IF /\ ch_is(h.s, ".")
            /\ ~nextch_is(h.s, ".")
            /\ ~ident_start(nextch(h.s))
    THEN checked_float(scan_fraction(bump(h.s)), start_bpos, h.base)
    ELSE IF ch_is(h.s, "e") \/ ch_is(h.s, "E")
    THEN checked_float(scan_float_exponent(h.s), start_bpos, h.base)
    ELSE Val(h.s, Lit("Integer", with_str_from_to(start_bpos, h.s.pos), 0))

\* fn scan_number(&mut self, c: char) -> token::Lit
scan_number(s, c) == scan_number_tail(scan_number_head(bump(s), c), s.pos)

\* A single-quoted loop that takes a backslash for an ordinary character.
RECURSIVE single_quoted_loop_without_escapes(_, _, _, _)
single_quoted_loop_without_escapes(s, first, start_with_quote, msg) ==
    IF ch_is(s, "'")
    THEN s
    ELSE IF \/ is_eof(s)
            \/ (ch_is(s, "/") /\ ~first)
            \/ (ch_is(s, "\n") /\ ~nextch_is(s, "'"))
         THEN fatal_span_raise(s, start_with_quote, s.pos, msg)
         ELSE single_quoted_loop_without_escapes(
                  bump(s), FALSE, start_with_quote, msg)

\* ----------------------------------------------------------- strings
\* The `loop` of scan_single_quoted_string.
RECURSIVE single_quoted_loop(_, _, _, _)
single_quoted_loop(s, first, start_with_quote, unterminated_msg) ==
    IF ch_is(s, "'")
    THEN s
    ELSE IF ch_is(s, "\\") /\ (nextch_is(s, "'") \/ nextch_is(s, "\\"))
         THEN single_quoted_loop(bump(bump(s)), FALSE, start_with_quote,
                                 unterminated_msg)
         ELSE IF \/ is_eof(s)
                 \/ (ch_is(s, "/") /\ ~first)
                 \/ (ch_is(s, "\n") /\ ~nextch_is(s, "'"))
              THEN fatal_span_raise(s, start_with_quote, s.pos,
                                    unterminated_msg)
              ELSE single_quoted_loop(bump(s), FALSE, start_with_quote,
                                      unterminated_msg)

\* `let id = self.name_from(start); self.bump(); id` of the quoted-string
\* scanners, unless the loop raised.
quoted_name(s1, start) ==
    IF s1.abort # ""
    THEN Val(s1, <<>>)
    ELSE Val(bump(s1), with_str_from_to(start, s1.pos))

\* fn scan_single_quoted_string(&mut self, start_with_quote, msg) -> ast::Name
scan_single_quoted_string(s, start_with_quote, unterminated_msg) ==
    quoted_name(IF ch_is(s, "'") /\ nextch_is(s, "'")
                THEN bump(s)
                ELSE single_quoted_loop(s, TRUE, start_with_quote,
                                        unterminated_msg),
                s.pos)

\* A double-quoted loop that takes a backslash for an ordinary character.
RECURSIVE double_quoted_loop_without_escapes(_, _, _)
double_quoted_loop_without_escapes(s, start_with_quote, unterminated_msg) ==
    IF ch_is(s, "\"")
    THEN s
    ELSE IF is_eof(s)
         THEN fatal_span_raise(s, start_with_quote, s.pos, unterminated_msg)
         ELSE double_quoted_loop_without_escapes(bump(s), start_with_quote,
                                                 unterminated_msg)

\* The `while !self.ch_is('"')` loop of scan_double_quoted_string.
RECURSIVE double_quoted_loop(_, _, _)
double_quoted_loop(s, start_with_quote, unterminated_msg) ==
    IF ch_is(s, "\"")
    THEN s
    ELSE IF is_eof(s)
         THEN fatal_span_raise(s, start_with_quote, s.pos, unterminated_msg)
         ELSE IF ch_is(s, "\\") /\ (nextch_is(s, "\\") \/ nextch_is(s, "\""))
              THEN double_quoted_loop(bump(bump(s)), start_with_quote,
                                      unterminated_msg)
              ELSE double_quoted_loop(bump(s), start_with_quote,
                                      unterminated_msg)

\* fn scan_double_quoted_string(&mut self, unterminated_msg) -> ast::Name
scan_double_quoted_string(s, unterminated_msg) ==
    quoted_name(double_quoted_loop(bump(s), s.pos, unterminated_msg),
                s.next_pos)

\* u16::MAX, the largest hash count of a raw string
MaxHashes == 65535

\* `let mut hash_count: u16`: the counter is kept modulo 2^16.
U16 == 65536

\* A hashes loop that counts without the test against 65535.
RECURSIVE raw_hashes_loop_unchecked(_, _, _, _)
raw_hashes_loop_unchecked(s, hash_count, start_bpos, msg) ==
    IF ch_is(s, "#")
    THEN raw_hashes_loop_unchecked(bump(s), (hash_count + 1) % U16,
                                   start_bpos, msg)
    ELSE Val(s, hash_count)

\* `while self.ch_is('#')` of the raw string scanners; returns hash_count.
RECURSIVE raw_hashes_loop(_, _, _, _)
raw_hashes_loop(s, hash_count, start_bpos, msg) ==
    IF ch_is(s, "#")
    THEN IF hash_count = MaxHashes
         THEN Val(fatal_span_raise(s, start_bpos, s.next_pos, msg), hash_count)
         ELSE raw_hashes_loop(bump(s), (hash_count + 1) % U16,
                              start_bpos, msg)
    ELSE Val(s, hash_count)

\* A fence loop that takes every quote for the closing one.
RECURSIVE raw_fence_loop_at_any_quote(_, _)
raw_fence_loop_at_any_quote(s, k) ==
    IF k = 0 THEN Val(s, TRUE) ELSE raw_fence_loop_at_any_quote(bump(s), k - 1)

\* `for _ in 0..hash_count { self.bump(); if !self.ch_is('#') { continue
\* 'outer; } }`: the value is TRUE when the loop ran to its end (break).
RECURSIVE raw_fence_loop(_, _)
raw_fence_loop(s, k) ==
    IF k = 0
    THEN Val(s, TRUE)
    ELSE LET s1 == bump(s)
         IN  IF ~ch_is(s1, "#") THEN Val(s1, FALSE)
                                ELSE raw_fence_loop(s1, k - 1)

\* What the body loops of the raw string scanners return.
RawBody(s, content_end_bpos, valid) ==
    [s |-> s, content_end_bpos |-> content_end_bpos, valid |-> valid]

\* After the fence loop `f` at a quote at `quote_pos`: the end of the
\* literal (break), or the position the 'outer loop continues from.
RawQuote(f, quote_pos) ==
    [s |-> f.s, closed |-> f.v, content_end_bpos |-> quote_pos]

\* The 'outer loop of the `r` arm of next_token_inner.
RECURSIVE raw_str_loop(_, _, _, _)
RECURSIVE raw_str_quote(_, _, _, _)
raw_str_quote(q, start_bpos, hash_count, valid) ==
    IF q.closed
    THEN RawBody(q.s, q.content_end_bpos, valid)
    ELSE raw_str_loop(q.s, start_bpos, hash_count, valid)

raw_str_loop(s, start_bpos, hash_count, valid) ==
    IF is_eof(s)
    THEN RawBody(fail_unterminated_raw_string(s, start_bpos, hash_count),
                 0, valid)
    ELSE IF s.ch = "\""
         THEN raw_str_quote(RawQuote(raw_fence_loop(s, hash_count), s.pos),
                            start_bpos, hash_count, valid)
         ELSE IF s.ch = "\r" /\ ~nextch_is(s, "\n")
              THEN raw_str_loop(
                       bump(err_span_(s, start_bpos, s.pos,
                           "bare CR not allowed in raw string, use \\r instead")),
                       start_bpos, hash_count, FALSE)
              ELSE raw_str_loop(bump(s), start_bpos, hash_count, valid)

\* The 'outer loop of scan_raw_byte_string.
RECURSIVE raw_byte_str_loop(_, _, _)
RECURSIVE raw_byte_str_quote(_, _, _)
raw_byte_str_quote(q, start_bpos, hash_count) ==
    IF q.closed
    THEN RawBody(q.s, q.content_end_bpos, TRUE)
    ELSE raw_byte_str_loop(q.s, start_bpos, hash_count)

raw_byte_str_loop(s, start_bpos, hash_count) ==
    IF s.ch = None
    THEN RawBody(fail_unterminated_raw_string(s, start_bpos, hash_count),
                 0, TRUE)
    ELSE IF s.ch = "\""
         THEN raw_byte_str_quote(
                  RawQuote(raw_fence_loop(s, hash_count), s.pos),
                  start_bpos, hash_count)
         ELSE IF s.ch \in NonAscii
              THEN raw_byte_str_loop(
                       bump(err_span_(s, s.pos, s.pos,
                                      "raw byte string must be ASCII")),
                       start_bpos, hash_count)
              ELSE raw_byte_str_loop(bump(s), start_bpos, hash_count)

\* After the hashes `h` of a raw (byte) string: the quote that opens the
\* body.  The cursor is left on the first body character.
raw_open_quote(h, start_bpos) ==
    IF h.s.abort # ""
    THEN h
    ELSE IF is_eof(h.s)
         THEN Val(fail_unterminated_raw_string(h.s, start_bpos, h.v), h.v)
         ELSE IF ~ch_is(h.s, "\"")
              THEN Val(fatal_span_raise(h.s, start_bpos, h.s.pos,
                           "found invalid character; only # is allowed in raw string delimitation"),
                       h.v)
              ELSE Val(bump(h.s), h.v)

\* The opening of a raw (byte) string: `r`, the hashes and the quote.
\* Returns hash_count.
raw_open(s, start_bpos, too_many_msg) ==
    raw_open_quote(raw_hashes_loop(bump(s), 0, start_bpos, too_many_msg),
                   start_bpos)

\* The literal of a raw (byte) string whose body loop returned `b`:
\* the last bump, and the symbol of the content (or `??`).
raw_lit(b, sub, content_start_bpos, hash_count) ==
    IF b.s.abort # ""
    THEN Val(b.s, Lit(sub, <<>>, 0))
    ELSE Val(bump(b.s),
             Lit(sub,
                 IF b.valid
                 THEN with_str_from_to(content_start_bpos, b.content_end_bpos)
                 ELSE <<"?", "?">>,
                 hash_count))

\* scan_raw_byte_string after the opening `h`.
raw_byte_body(h, start_bpos) ==
    IF h.s.abort # ""
    THEN Val(h.s, Lit("ByteStrRaw", <<>>, 0))
    ELSE raw_lit(raw_byte_str_loop(h.s, start_bpos, h.v),
                 "ByteStrRaw", h.s.pos, h.v)

\* fn scan_raw_byte_string(&mut self) -> token::Lit
scan_raw_byte_string(s) ==
    raw_byte_body(raw_open(s, s.pos, "too many # symbols (raw byte string)"),
                  s.pos)

\* -------------------------------------------------------- dispatcher
\* What next_token_inner returns: Result<token::Token, ()> beside the reader.
\* `tok` means nothing when `err` holds or the reader aborted.
NT(s, tok) == [s |-> s, tok |-> tok, err |-> FALSE]
NTErr(s) == [s |-> s, tok |-> Plain("Whitespace"), err |-> TRUE]

\* A binop that never looks for the `=`.
binop_without_eq(s, op) == NT(bump(s), Sub("BinOp", op))

\* fn binop(&mut self, op) -> token::Token
binop(s, op) ==
    LET s1 == bump(s)
    IN  IF ch_is(s1, "=")
        THEN NT(bump(s1), Sub("BinOpEq", op))
        ELSE NT(s1, Sub("BinOp", op))

\* Names that Ident::can_be_raw rejects (the path-segment keywords and `_`).
CannotBeRaw ==
    {<<"_">>, <<"s","e","l","f">>, <<"S","e","l","f">>,
     <<"s","u","p","e","r">>, <<"c","r","a","t","e">>}

\* Ident::can_be_raw
can_be_raw(string) == string \notin CannotBeRaw

\* Ok(token::Literal(lit, suffix)) with the suffix `q` just scanned
suffixed(q, lit) == NT(q.s, Literal(lit, q.v))

\* The literal `sub` whose symbol the scanner result `r` holds.
AsLit(r, sub) == Val(r.s, Lit(sub, r.v, 0))

\* `let suffix = self.scan_optional_raw_name(); Ok(token::Literal(lit,
\* suffix))` after a scanner that returned the literal `r.v`.
literal_with_suffix(r) ==
    IF r.s.abort # ""
    THEN NT(r.s, Plain("Whitespace"))
    ELSE suffixed(scan_optional_raw_name(r.s), r.v)

\* An identifier test that sends every `b` to the `b` arm.
ident_kind_b_to_arm(s) ==
    IF s.ch = "b" THEN <<FALSE, FALSE>>
    ELSE IF s.ch = "r" /\ nextch(s) = "#" /\ ident_start(nextnextch(s))
         THEN <<TRUE, TRUE>>
         ELSE <<~(s.ch = "r" /\ nextch(s) \in {"\"", "#"}), FALSE>>

\* The identifier arm of next_token_inner: (is_ident_start, is_raw_ident).
ident_kind(s) ==
    LET c == s.ch
        n == nextch(s)
        nn == nextnextch(s)
    IN  IF c = "r" /\ n = "#" /\ ident_start(nn)
        THEN <<TRUE, TRUE>>
        ELSE IF \/ (c = "r" /\ n = "\"")
                \/ (c = "r" /\ n = "#")
                \/ (c = "b" /\ n = "\"")
                \/ (c = "b" /\ n = "'")
                \/ (c = "b" /\ n = "r" /\ nn = "\"")
                \/ (c = "b" /\ n = "r" /\ nn = "#")
             THEN <<FALSE, FALSE>>
             ELSE <<TRUE, FALSE>>

\* An identifier closure that records only the raw identifiers that can be
\* raw.
ident_token_recording_valid(s2, raw_start, start, is_raw_ident) ==
    LET string == with_str_from_to(start, s2.pos)
        sp == mk_sp(raw_start, s2.pos)
    IN  NT([s2 EXCEPT
               !.diags = IF is_raw_ident /\ ~can_be_raw(string)
                         THEN Append(@, Diag("error",
                                  "cannot be a raw identifier", sp))
                         ELSE @,
               !.raw_ids = IF is_raw_ident /\ can_be_raw(string)
                           THEN Append(@, sp) ELSE @],
           Tok("Ident", "", string, 0, is_raw_ident, <<>>, mk_ident_span))

\* The closure of the identifier arm: the Ident scanned from `start`, and
\* for a raw identifier the error and the recorded span from raw_start.
ident_token(s2, raw_start, start, is_raw_ident) ==
    LET string == with_str_from_to(start, s2.pos)
        sp == mk_sp(raw_start, s2.pos)
    IN  NT([s2 EXCEPT
               !.diags = IF is_raw_ident /\ ~can_be_raw(string)
                         THEN Append(@, Diag("error",
                                  "cannot be a raw identifier", sp))
                         ELSE @,
               !.raw_ids = IF is_raw_ident THEN Append(@, sp) ELSE @],
           Tok("Ident", "", string, 0, is_raw_ident, <<>>, mk_ident_span))

\* An identifier arm that consumes nothing.
scan_ident_empty(s, is_raw_ident) == ident_token(s, s.pos, s.pos, is_raw_ident)

\* The body of `if is_ident_start { ... }`.
scan_ident(s, is_raw_ident) ==
    ident_token(eat_ident_continue(
                    bump(IF is_raw_ident THEN bump(bump(s)) ELSE s)),
                s.pos,
                IF is_raw_ident THEN s.pos + 2 ELSE s.pos,
                is_raw_ident)

\* The lifetime arm taking no notice of a closing quote.
lifetime_always(s2, start_with_quote, start, starts_with_number) ==
    NT(IF starts_with_number
       THEN err_span_(s2, start_with_quote, s2.pos,
                      "lifetimes cannot start with a number")
       ELSE s2,
       Tok("Lifetime", "", with_str_from_to(start_with_quote, s2.pos),
           0, FALSE, <<>>, mk_ident_span))

\* A lifetime branch that scans a suffix after the closing quote.
lifetime_or_char_with_suffix(s2, start_with_quote, start, starts_with_number) ==
    IF ch_is(s2, "'")
    THEN literal_with_suffix(
             Val(bump(s2), Lit("Char", with_str_from_to(start, s2.pos), 0)))
    ELSE lifetime_always(s2, start_with_quote, start, starts_with_number)

\* The lifetime branch of the `'\''` arm after the name: s2 is the reader
\* after the `while ident_continue` loop.
lifetime_or_char(s2, start_with_quote, start, starts_with_number) ==
    IF ch_is(s2, "'")
    THEN NT(bump(s2),
            Literal(Lit("Char", with_str_from_to(start, s2.pos), 0), <<>>))
    ELSE NT(IF starts_with_number
            THEN err_span_(s2, start_with_quote, s2.pos,
                           "lifetimes cannot start with a number")
            ELSE s2,
            Tok("Lifetime", "", with_str_from_to(start_with_quote, s2.pos),
                0, FALSE, <<>>, mk_ident_span))

\* The `'\''` arm after the bump over the quote.
scan_quote_body(s1, start_with_quote) ==
    IF /\ (ident_start(s1.ch) \/ is_numeric(ch_or_nul(s1)))
       /\ ~nextch_is(s1, "'")
    THEN lifetime_or_char(eat_ident_continue(bump(s1)), start_with_quote,
                          s1.pos, is_numeric(ch_or_nul(s1)))
    ELSE literal_with_suffix(
             AsLit(scan_single_quoted_string(s1, start_with_quote,
                       "unterminated character literal"),
                   "Char"))

\* The `'\''` arm: a character literal or a lifetime.
scan_quote(s) == scan_quote_body(bump(s), s.pos)

\* The `'b'` arm after the bump over the `b`.
scan_b_body(s1) ==
    IF s1.ch = "'"
    THEN literal_with_suffix(
             AsLit(scan_single_quoted_string(bump(s1), s1.pos,
                       "unterminated byte constant"),
                   "Byte"))
    ELSE IF s1.ch = "\""
         THEN literal_with_suffix(
                  AsLit(scan_double_quoted_string(s1,
                            "unterminated double quote byte string"),
                        "ByteStr"))
         ELSE IF s1.ch = "r"
              THEN literal_with_suffix(scan_raw_byte_string(s1))
              ELSE NT(panic(s1, "unreachable"), Plain("Whitespace"))

\* The `'b'` arm: a byte, a byte string or a raw byte string.
scan_b(s) == scan_b_body(bump(s))

\* The `'r'` arm after the opening `h`.
raw_str_body(h, start_bpos) ==
    IF h.s.abort # ""
    THEN Val(h.s, Lit("StrRaw", <<>>, 0))
    ELSE raw_lit(raw_str_loop(h.s, start_bpos, h.v, TRUE),
                 "StrRaw", h.s.pos, h.v)

\* The `'r'` arm: a raw string.
scan_r(s) ==
    literal_with_suffix(
        raw_str_body(raw_open(s, s.pos, "too many # symbols (raw string)"),
                     s.pos))

\* An unknown-start arm that returns Err with nothing buffered.
unknown_start_unbuffered(s) == NTErr(s)

\* An unknown-start arm that steps over the character before it fails.
unknown_start_skipping(s) ==
    NTErr([bump(s) EXCEPT !.fatal_errs = Append(@,
              Diag("fatal", "unknown start of token",
                   mk_sp(s.pos, s.next_pos)))])

\* The last arm of next_token_inner's match: `self.fatal_errs.push(err);
\* Err(())`, the cursor left where it is.
unknown_start(s) ==
    NTErr([s EXCEPT !.fatal_errs = Append(@,
              Diag("fatal", "unknown start of token",
                   mk_sp(s.pos, s.next_pos)))])

\* The single-character punctuators of next_token_inner.
OneByte ==
    [c \in {";", ",", "(", ")", "{", "}", "[", "]", "@", "#", "~", "?", "$"} |->
        CASE c = ";" -> Plain("Semi")
          [] c = "," -> Plain("Comma")
          [] c = "(" -> Sub("OpenDelim", "Paren")
          [] c = ")" -> Sub("CloseDelim", "Paren")
          [] c = "{" -> Sub("OpenDelim", "Brace")
          [] c = "}" -> Sub("CloseDelim", "Brace")
          [] c = "[" -> Sub("OpenDelim", "Bracket")
          [] c = "]" -> Sub("CloseDelim", "Bracket")
          [] c = "@" -> Plain("At")
          [] c = "#" -> Plain("Pound")
          [] c = "~" -> Plain("Tilde")
          [] c = "?" -> Plain("Question")
          [] c = "$" -> Plain("Dollar")]

\* The binary operators whose arm is `Ok(self.binop(op))`.
BinOpOf ==
    [c \in {"+", "*", "/", "^", "%"} |->
        CASE c = "+" -> "Plus" [] c = "*" -> "Star" [] c = "/" -> "Slash"
          [] c = "^" -> "Caret" [] c = "%" -> "Percent"]

\* The `match c` of next_token_inner on a punctuation character, and its
\* last arm, the unknown start of a token.
scan_punct(s) ==
    LET c == s.ch
        s1 == bump(s)
        s2 == bump(s1)
    IN  CASE c \in DOMAIN OneByte -> NT(s1, OneByte[c])
          [] c = "." ->
                IF ch_is(s1, ".")
                THEN IF ch_is(s2, ".") THEN NT(bump(s2), Plain("DotDotDot"))
                     ELSE IF ch_is(s2, "=") THEN NT(bump(s2), Plain("DotDotEq"))
                     ELSE NT(s2, Plain("DotDot"))
                ELSE NT(s1, Plain("Dot"))
          [] c = ":" ->
                IF ch_is(s1, ":") THEN NT(s2, Plain("ModSep"))
                                  ELSE NT(s1, Plain("Colon"))
          [] c = "=" ->
                IF ch_is(s1, "=") THEN NT(s2, Plain("EqEq"))
                ELSE IF ch_is(s1, ">") THEN NT(s2, Plain("FatArrow"))
                ELSE NT(s1, Plain("Eq"))
          [] c = "!" ->
                IF ch_is(s1, "=") THEN NT(s2, Plain("Ne"))
                                  ELSE NT(s1, Plain("Not"))
          [] c = "<" ->
                IF ch_or_nul(s1) = "=" THEN NT(s2, Plain("Le"))
                ELSE IF ch_or_nul(s1) = "<" THEN binop(s1, "Shl")
                ELSE IF ch_or_nul(s1) = "-" THEN NT(s2, Plain("LArrow"))
                ELSE NT(s1, Plain("Lt"))
          [] c = ">" ->
                IF ch_or_nul(s1) = "=" THEN NT(s2, Plain("Ge"))
                ELSE IF ch_or_nul(s1) = ">" THEN binop(s1, "Shr")
                ELSE NT(s1, Plain("Gt"))
          [] c = "-" ->
                IF nextch_is(s, ">") THEN NT(s2, Plain("RArrow"))
                                     ELSE binop(s, "Minus")
          [] c = "&" ->
                IF nextch_is(s, "&") THEN NT(s2, Plain("AndAnd"))
                                     ELSE binop(s, "And")
          [] c = "|" ->
                IF nextch(s) = "|" THEN NT(s2, Plain("OrOr"))
                                   ELSE binop(s, "Or")
          [] c \in DOMAIN BinOpOf -> binop(s, BinOpOf[c])
          [] OTHER -> unknown_start(s)

\* fn next_token_inner(&mut self) -> Result<token::Token, ()>
next_token_inner(s) ==
    IF ident_start(s.ch) /\ ident_kind(s)[1]
    THEN scan_ident(s, ident_kind(s)[2])
    ELSE IF is_dec_digit(s.ch)
         THEN literal_with_suffix(scan_number(s, s.ch))
         ELSE IF s.ch = None
              THEN NT(panic(s, "next_token_inner called at EOF"),
                      Plain("Whitespace"))
              ELSE IF s.ch = "'" THEN scan_quote(s)
              ELSE IF s.ch = "b" THEN scan_b(s)
              ELSE IF s.ch = "\""
              THEN literal_with_suffix(
                       AsLit(scan_double_quoted_string(s,
                                 "unterminated double quote string"),
                             "Str"))
              ELSE IF s.ch = "r" THEN scan_r(s)
              ELSE scan_punct(s)

\* ------------------------------------------------------------ stream
\* The reader as the stream operations see it: the scanners' part `s`, the
\* peek buffer, the current token, and the history of returned tokens.
Reader ==
    [s |-> Self, peek_tok |-> peek_tok, peek_span |-> peek_span,
     peek_span_src_raw |-> peek_span_src_raw, token |-> token, span |-> span,
     span_src_raw |-> span_src_raw, returned |-> returned]

\* A stream operation's result beside the reader.
Res(rd, res) == [rd |-> rd, res |-> res]

\* What advance_token returns: the reader, and FALSE on Err or an abort.
Adv(rd, ok) == [rd |-> rd, ok |-> ok]

\* An `else` branch that ends the peeked span at next_pos, one character
\* late.
advance_inner_to_next_pos(rd, r, start_bytepos) ==
    IF r.s.abort # "" \/ r.err
    THEN Adv([rd EXCEPT !.s = r.s], FALSE)
    ELSE Adv([rd EXCEPT
                 !.s = r.s,
                 !.peek_tok = r.tok,
                 !.peek_span = mk_sp_and_raw(start_bytepos, r.s.next_pos)[1],
                 !.peek_span_src_raw =
                     mk_sp_and_raw(start_bytepos, r.s.next_pos)[2]],
             TRUE)

\* The `else` branch of advance_token: `r` is what next_token_inner returned
\* from start_bytepos.
advance_inner(rd, r, start_bytepos) ==
    IF r.s.abort # "" \/ r.err
    THEN Adv([rd EXCEPT !.s = r.s], FALSE)
    ELSE Adv([rd EXCEPT
                 !.s = r.s,
                 !.peek_tok = r.tok,
                 !.peek_span = mk_sp_and_raw(start_bytepos, r.s.pos)[1],
                 !.peek_span_src_raw = mk_sp_and_raw(start_bytepos, r.s.pos)[2]],
             TRUE)

\* An Eof branch that steps the cursor on and spans the Eof from where it
\* stood.
advance_eof_bumping(rd, s) ==
    Adv([rd EXCEPT !.s = [s EXCEPT !.pos = s.pos + 1],
                   !.peek_tok = Plain("Eof"),
                   !.peek_span = mk_sp_and_raw(s.pos, s.pos)[1],
                   !.peek_span_src_raw = mk_sp_and_raw(s.pos, s.pos)[2]],
        TRUE)

\* An Eof branch that spans the Eof from where the cursor stands.
advance_eof_at_cursor(rd, s) ==
    Adv([rd EXCEPT !.s = s,
                   !.peek_tok = Plain("Eof"),
                   !.peek_span = mk_sp_and_raw(s.pos, s.pos)[1],
                   !.peek_span_src_raw = mk_sp_and_raw(s.pos, s.pos)[2]],
        TRUE)

\* The `if self.is_eof()` branch of advance_token, with the cursor at `s`.
advance_eof(rd, s) ==
    Adv([rd EXCEPT !.s = s,
                   !.peek_tok = Plain("Eof"),
                   !.peek_span = mk_sp_and_raw(end_pos, end_pos)[1],
                   !.peek_span_src_raw = mk_sp_and_raw(end_pos, end_pos)[2]],
        TRUE)

\* The `match` of advance_token: `w` is what scan_whitespace_or_comment
\* returned.
advance_match(rd, w) ==
    IF w.s.abort # ""
    THEN Adv([rd EXCEPT !.s = w.s], FALSE)
    ELSE IF w.v # <<>>
    THEN Adv([rd EXCEPT !.s = w.s,
                        !.peek_span_src_raw = w.v[1].sp,
                        !.peek_span = w.v[1].sp,
                        !.peek_tok = w.v[1].tok],
             TRUE)
    ELSE IF is_eof(w.s)
    THEN advance_eof(rd, w.s)
    ELSE advance_inner(rd, next_token_inner(w.s), w.s.pos)

\* fn advance_token(&mut self) -> Result<(), ()>
advance_token(rd) == advance_match(rd, scan_whitespace_or_comment(rd.s))

\* An end of try_next_token that keeps the raw span of the token returned.
next_token_result_of_returned(a, ret_val) ==
    IF a.rd.s.abort # ""
    THEN Res(a.rd, NoRet)
    ELSE IF ~a.ok
         THEN Res(a.rd, Err)
         ELSE Res([a.rd EXCEPT !.span_src_raw = ret_val.sp,
                               !.returned = Append(@, ret_val)],
                  Ok(ret_val))

\* try_next_token after advance_token returned `a`: `self.advance_token()?;
\* self.span_src_raw = self.peek_span_src_raw; Ok(ret_val)`
next_token_result(a, ret_val) ==
    IF a.rd.s.abort # ""
    THEN Res(a.rd, NoRet)
    ELSE IF ~a.ok
         THEN Res(a.rd, Err)
         ELSE Res([a.rd EXCEPT !.span_src_raw = a.rd.peek_span_src_raw,
                               !.returned = Append(@, ret_val)],
                  Ok(ret_val))

\* A try_next_token with no lookahead: it refills first and returns what the
\* refill found.
try_next_token_after_refill(rd) ==
    IF rd.s.fatal_errs # <<>>
    THEN Res([rd EXCEPT !.s = panic(rd.s,
                  "assertion failed: self.fatal_errs.is_empty()")], NoRet)
    ELSE LET a == advance_token([rd EXCEPT !.peek_tok = Plain("Whitespace")])
         IN  next_token_result(a, TokenAndSpan(a.rd.peek_tok, a.rd.peek_span))

\* A try_next_token without the assertion at its entry.
try_next_token_unasserted(rd) ==
    next_token_result(
        advance_token([rd EXCEPT !.peek_tok = Plain("Whitespace")]),
        TokenAndSpan(rd.peek_tok, rd.peek_span))

\* A try_next_token that puts the token back in the peek buffer when the
\* refill fails.
try_next_token_restoring(rd) ==
    IF rd.s.fatal_errs # <<>>
    THEN Res([rd EXCEPT !.s = panic(rd.s,
                  "assertion failed: self.fatal_errs.is_empty()")], NoRet)
    ELSE LET r == next_token_result(
                      advance_token([rd EXCEPT !.peek_tok = Plain("Whitespace")]),
                      TokenAndSpan(rd.peek_tok, rd.peek_span))
         IN  IF r.res = Err THEN [r EXCEPT !.rd.peek_tok = rd.peek_tok] ELSE r

\* pub fn try_next_token(&mut self) -> Result<TokenAndSpan, ()>
try_next_token(rd) ==
    IF rd.s.fatal_errs # <<>>
    THEN Res([rd EXCEPT !.s = panic(rd.s,
                  "assertion failed: self.fatal_errs.is_empty()")], NoRet)
    ELSE next_token_result(
             advance_token([rd EXCEPT !.peek_tok = Plain("Whitespace")]),
             TokenAndSpan(rd.peek_tok, rd.peek_span))

\* A first arm that lets comments through.
skipped_without_comment(tok) == tok.kind \in {"Whitespace", "Shebang"}

\* The first arm of try_real_token's match: the tokens it pulls past.
skipped(tok) == tok.kind \in {"Whitespace", "Comment", "Shebang"}

\* The `loop` of try_real_token, entered with the result of a try_next_token.
RECURSIVE real_token_loop(_)
real_token_loop(r) ==
    IF r.rd.s.abort # "" \/ r.res.kind # "Ok"
    THEN r
    ELSE IF skipped(r.res.tok)
         THEN real_token_loop(try_next_token(r.rd))
         ELSE Res([r.rd EXCEPT !.token = r.res.tok, !.span = r.res.sp], r.res)

\* fn try_real_token(&mut self) -> Result<TokenAndSpan, ()>
try_real_token(rd) == real_token_loop(try_next_token(rd))

\* crate fn emit_fatal_errors(&mut self)
emit_fatal_errors(rd) ==
    [rd EXCEPT !.s.diags = @ \o rd.s.fatal_errs, !.s.fatal_errs = <<>>]

\* fn unwrap_or_abort(&mut self, res) -> TokenAndSpan
unwrap_or_abort(r) ==
    IF r.rd.s.abort = "" /\ r.res.kind = "Err"
    THEN Res([emit_fatal_errors(r.rd) EXCEPT !.s.abort = "FatalError"], NoRet)
    ELSE r

\* fn next_token(&mut self) -> TokenAndSpan
next_token(rd) == unwrap_or_abort(try_next_token(rd))

\* pub fn real_token(&mut self) -> TokenAndSpan
real_token(rd) == unwrap_or_abort(try_real_token(rd))

\* A peek that consumes the token it shows.
peek_consuming(rd) == try_next_token(rd)

\* pub fn peek(&self) -> TokenAndSpan
peek(rd) == Res(rd, Ok(TokenAndSpan(rd.peek_tok, rd.peek_span)))

\* fn new_raw: new_raw_internal, then one bump
new_raw(rd) == [rd EXCEPT !.s = bump(rd.s)]

\* ----------------------------------------------------- the state machine
\* The UTF-8 encoding of a character, and of a sequence of characters.
Utf8(c) == <<c>> \o [i \in 1..(len_utf8(c) - 1) |-> Cont]
RECURSIVE Encode(_)
Encode(cs) == IF cs = <<>> THEN <<>> ELSE Utf8(Head(cs)) \o Encode(Tail(cs))

\* Every text of at most n characters over the alphabet A.
Texts(A, n) == {Encode(cs) : cs \in UNION {[1..k -> A] : k \in 0..n}}

\* The characters of the sources of Spec: an identifier character, white
\* space, the comment and shebang markers, and a scalar that starts no token.
StreamChars == {"a", " ", "/", "*", "#", "!", "U+20AC"}

\* The offsets a source file may start at in the source map.
StartPositions == {0, 2}

\* The override spans a reader may be built with; the file that starts past
\* offset 0 is the one read with and without an override.
OverrideSpans == {<<>>, <<Span(7, 9, "Expansion")>>}

\* fn new_raw_internal: the reader before the priming bump
InitReader(texts) ==
    /\ src \in texts
    /\ start_pos \in StartPositions
    /\ override_span \in IF start_pos = 0 THEN {<<>>} ELSE OverrideSpans
    /\ end_src_index = Len(src)
    /\ next_pos = start_pos
    /\ pos = start_pos
    /\ ch = "\n"
    /\ peek_tok = Plain("Eof")
    /\ peek_span = DUMMY_SP
    /\ peek_span_src_raw = DUMMY_SP
    /\ fatal_errs = <<>>
    /\ token = Plain("Eof")
    /\ span = DUMMY_SP
    /\ span_src_raw = DUMMY_SP
    /\ raw_identifier_spans = <<>>
    /\ diags = <<>>
    /\ phase = "raw"
    /\ last_call = "new_raw_internal"
    /\ ret = NoRet
    /\ returned = <<>>
    /\ buffered = <<>>
    /\ drained = 0

\* A reader no raw string scanner is at work in.
InitFile(texts) == InitReader(texts) /\ hashes = 0

\* A reader built by new_raw over a whole file.
InitOver(chars) == InitFile(Texts(chars, MaxLen)) /\ retokenized = <<>>

Init == InitOver(StreamChars)

\* What becomes of the caller after a call that left `abort` in the reader.
PhaseOf(abort) ==
    IF abort = "" THEN "ready"
    ELSE IF abort = "FatalError" THEN "raised" ELSE abort

\* The reader's fields after a call that returned `r`, as the variables of
\* the next state.
InstallReader(r, name) ==
    /\ pos' = r.rd.s.pos
    /\ next_pos' = r.rd.s.next_pos
    /\ ch' = r.rd.s.ch
    /\ end_src_index' = r.rd.s.end
    /\ diags' = r.rd.s.diags
    /\ fatal_errs' = r.rd.s.fatal_errs
    /\ raw_identifier_spans' = r.rd.s.raw_ids
    /\ peek_tok' = r.rd.peek_tok
    /\ peek_span' = r.rd.peek_span
    /\ peek_span_src_raw' = r.rd.peek_span_src_raw
    /\ token' = r.rd.token
    /\ span' = r.rd.span
    /\ span_src_raw' = r.rd.span_src_raw
    /\ returned' = r.rd.returned
    /\ last_call' = name
    /\ ret' = r.res
    /\ UNCHANGED <<src, start_pos, override_span, retokenized>>

\* The same after a call that is not the hashes loop of a raw string.
Install(r, name) == InstallReader(r, name) /\ UNCHANGED hashes

\* A call on a reader the caller holds: it keeps it unless the call aborted.
Call(r, name) ==
    /\ Install(r, name)
    /\ phase' = PhaseOf(r.rd.s.abort)
    /\ UNCHANGED <<buffered, drained>>

\* pub fn buffer_fatal_errors(&mut self) -> Vec<Diagnostic>
buffer_fatal_errors(rd) ==
    [rd |-> [rd EXCEPT !.s.fatal_errs = <<>>], buffer |-> rd.s.fatal_errs]

\* The end of new_or_buffered_errs: `a` is what advance_token returned.
new_or_buffered(a) ==
    IF a.rd.s.abort = "" /\ ~a.ok
    THEN /\ Install(Res(buffer_fatal_errors(a.rd).rd, Err),
                    "new_or_buffered_errs")
         /\ phase' = "no_reader"
         /\ buffered' = buffer_fatal_errors(a.rd).buffer
    ELSE /\ Install(Res(a.rd, NoRet), "new_or_buffered_errs")
         /\ phase' = PhaseOf(a.rd.s.abort)
         /\ UNCHANGED buffered

\* pub fn new_or_buffered_errs: Err(buffered diagnostics) or a primed reader
NewOrBufferedErrs ==
    /\ phase = "raw"
    /\ new_or_buffered(advance_token(new_raw(Reader)))
    /\ UNCHANGED drained

\* The end of tests::setup: on Err emit the fatal errors and raise.
setup_result(a) == unwrap_or_abort(Res(a.rd, IF a.ok THEN NoRet ELSE Err))

\* tests::setup: new_raw with no override span, advance_token, and on Err
\* emit and raise
Setup ==
    /\ phase = "raw"
    /\ override_span = <<>>
    /\ Call(setup_result(advance_token(new_raw(Reader))), "setup")

\* How many Eof tokens the stream has returned.
EofCount ==
    Cardinality({i \in 1..Len(returned) : returned[i].tok.kind = "Eof"})

\* The caller may ask for a token: it holds a reader and has not seen
\* MaxEof Eof tokens yet.
MayCall == phase = "ready" /\ EofCount < MaxEof

TryNextToken == MayCall /\ Call(try_next_token(Reader), "try_next_token")

NextToken == MayCall /\ Call(next_token(Reader), "next_token")

TryRealToken == MayCall /\ Call(try_real_token(Reader), "try_real_token")

RealToken == MayCall /\ Call(real_token(Reader), "real_token")

Peek == phase = "ready" /\ Call(peek(Reader), "peek")

\* The caller drains the buffered fatal diagnostics (a drain of an empty
\* buffer changes nothing and is left out).
BufferFatalErrors ==
    /\ phase = "ready"
    /\ fatal_errs # <<>>
    /\ drained < MaxDrain
    /\ Install(Res(buffer_fatal_errors(Reader).rd, NoRet),
               "buffer_fatal_errors")
    /\ buffered' = buffer_fatal_errors(Reader).buffer
    /\ phase' = phase
    /\ drained' = drained + 1

\* The caller emits the buffered fatal diagnostics.
EmitFatalErrors ==
    /\ phase = "ready"
    /\ fatal_errs # <<>>
    /\ drained < MaxDrain
    /\ Install(Res(emit_fatal_errors(Reader), NoRet), "emit_fatal_errors")
    /\ phase' = phase
    /\ drained' = drained + 1
    /\ UNCHANGED buffered

Next ==
    \/ NewOrBufferedErrs
    \/ Setup
    \/ TryNextToken
    \/ NextToken
    \/ TryRealToken
    \/ RealToken
    \/ Peek
    \/ BufferFatalErrors
    \/ EmitFatalErrors

Spec == Init /\ [][Next]_vars

\* ------------------------------------------------------- retokenize
\* SourceMap::lookup_byte_offset(bpos).sf.start_pos: the files of the source
\* map lie one after another, each starting one past the end of the one
\* before; the reader's file is the one at start_pos.
lookup_byte_offset(bpos) ==
    IF bpos > end_pos THEN end_pos + 1
    ELSE IF bpos >= start_pos THEN start_pos ELSE 0

\* retokenize: `if span.lo() > span.hi() || begin.sf.start_pos !=
\* end.sf.start_pos { span = span.shrink_to_lo(); }`
retokenize_span(sp) ==
    IF sp.lo > sp.hi \/ lookup_byte_offset(sp.lo) # lookup_byte_offset(sp.hi)
    THEN Span(sp.lo, sp.lo, sp.ctxt)
    ELSE sp

\* A seek that leaves end_src_index at the end of the file.
retokenize_seek_without_end(rd, sp) == [rd EXCEPT !.s.next_pos = sp.lo]

\* retokenize: `sr.next_pos = span.lo(); sr.end_src_index =
\* sr.src_index(span.hi());`
retokenize_seek(rd, sp) ==
    [rd EXCEPT !.s.next_pos = sp.lo, !.s.end = src_index(sp.hi)]

\* pub fn retokenize(sess, span) -> Self: seek, bump, advance_token, and on
\* Err emit the fatal errors and raise
retokenize(rd, sp) ==
    setup_result(advance_token(new_raw(retokenize_seek(rd,
                                                       retokenize_span(sp)))))

\* The offsets of the reader's file that start a character, and its end.
CharBoundaries ==
    {start_pos + i : i \in {j \in 0..Len(src) :
                                j = Len(src) \/ src[j + 1] # Cont}}

\* The spans retokenize may be given: lo in the reader's file, hi in it
\* (before lo or not) or in the file before or after it.
RetokenizeSpans ==
    {Span(lo, hi, NO_EXPANSION) :
        lo \in CharBoundaries, hi \in CharBoundaries \cup {0, end_pos + 1}}

\* The characters of the sources of SpecRetokenize: an identifier character,
\* white space, the character a comment starts with twice and a division
\* starts with once, and a scalar of three bytes that starts no token.
RetokenizeChars == {"a", " ", "/", "U+20AC"}

\* new_raw_internal(sess, begin.sf, None), and the span to seek to
InitRetokenize ==
    /\ InitFile(Texts(RetokenizeChars, MaxLen))
    /\ override_span = <<>>
    /\ retokenized \in {<<sp>> : sp \in RetokenizeSpans}

Retokenize ==
    /\ phase = "raw"
    /\ retokenized # <<>>
    /\ Call(retokenize(Reader, retokenized[1]), "retokenize")

\* --------------------------------------------- the cursor, bump by bump
\* fn new_raw alone: the priming bump, before any token is read
NewRaw ==
    /\ phase = "raw"
    /\ Install(Res(new_raw(Reader), NoRet), "new_raw")
    /\ phase' = "primed"
    /\ UNCHANGED <<buffered, drained>>

\* crate fn bump, called on a reader that holds no failure
Bump ==
    /\ phase \in {"primed", "ready"}
    /\ Install(Res([Reader EXCEPT !.s = bump(Reader.s)], NoRet), "bump")
    /\ phase' = phase
    /\ UNCHANGED <<buffered, drained>>

NextCursor ==
    \/ NewRaw
    \/ Bump

\* The cursor states a reader passes through: every scanner moves the
\* cursor with bump and nothing else.
SpecCursor == Init /\ [][NextCursor]_vars

\* ------------------------------------------- a source read to its end
\* The caller of the tests: setup, then next_token until Eof.
NextTokens ==
    \/ Setup
    \/ NextToken

\* The characters of the sources of SpecBlockComments: the two characters
\* of the markers, the second character of an inner doc comment, and a
\* character of the text.
BlockCommentChars == {"/", "*", "!", "a"}

\* A file that starts with the opening marker of a block comment.
InitBlockComments ==
    /\ InitFile({<<"/", "*">> \o t :
                     t \in Texts(BlockCommentChars, MaxBlockBody)})
    /\ override_span = <<>>
    /\ retokenized = <<>>

SpecBlockComments == InitBlockComments /\ [][NextTokens]_vars

\* The characters of the sources of SpecLineComments: the slash, the
\* second character of an inner doc comment, the two characters of the line
\* ends, and a character of the text.
LineCommentChars == {"/", "!", "\r", "\n", "a"}

\* A file that starts with the two slashes of a line comment.
InitLineComments ==
    /\ InitFile({<<"/", "/">> \o t :
                     t \in Texts(LineCommentChars, MaxLineBody)})
    /\ override_span = <<>>
    /\ retokenized = <<>>

SpecLineComments == InitLineComments /\ [][NextTokens]_vars

\* The characters of the sources of SpecBlockDocComments: the two
\* characters of the closing marker, the two characters of the line ends,
\* and a character of the text.
BlockDocCommentChars == {"*", "/", "\r", "\n", "a"}

\* A file that starts with the three characters that open a block doc
\* comment.
InitBlockDocComments ==
    /\ InitFile({<<"/", "*", "*">> \o t :
                     t \in Texts(BlockDocCommentChars, MaxDocBody)})
    /\ override_span = <<>>
    /\ retokenized = <<>>

SpecBlockDocComments == InitBlockDocComments /\ [][NextTokens]_vars

\* The characters of the sources of SpecShebang: the two characters of the
\* shebang, the bracket of an inner attribute, the line feed, a character
\* of the text, and the character that makes an operator of `!`.
ShebangChars == {"#", "!", "[", "\n", "a", "="}

InitShebang ==
    /\ InitFile(Texts(ShebangChars, MaxShebangLen))
    /\ override_span = <<>>
    /\ retokenized = <<>>

SpecShebang == InitShebang /\ [][NextTokens]_vars

\* The characters of the sources of SpecQuotes: the quote, a letter, a
\* digit, the backslash of an escape, and the slash and the line feed that
\* end the search for the closing quote.
QuoteChars == {"'", "a", "1", "\\", "/", "\n"}

\* A file that starts with a single quote.
InitQuotes ==
    /\ InitFile({<<"'">> \o t : t \in Texts(QuoteChars, MaxQuoteBody)})
    /\ override_span = <<>>
    /\ retokenized = <<>>

SpecQuotes == InitQuotes /\ [][NextTokens]_vars

\* The openings of the raw strings of SpecRawStrings: `r` or `br`, up to
\* two hashes, and the quote.
RawOpenings ==
    {p \o h \o <<"\"">> :
        p \in {<<"r">>, <<"b", "r">>},
        h \in {<<>>, <<"#">>, <<"#", "#">>}}

\* The characters of the bodies of SpecRawStrings: the two characters of
\* the closing fence, a character of the text, and the carriage return.
RawStringChars == {"#", "\"", "a", "\r"}

\* A file that starts with the opening of a raw string or raw byte string.
InitRawStrings ==
    /\ InitFile({p \o t : p \in RawOpenings,
                          t \in Texts(RawStringChars, MaxRawBody)})
    /\ override_span = <<>>
    /\ retokenized = <<>>

SpecRawStrings == InitRawStrings /\ [][NextTokens]_vars

\* The longest text the hashes loop of SpecHashes reads.
MaxHashWindow == 4

\* The characters of that text: the hash, and two characters that end the
\* run of hashes.
HashChars == {"#", "\"", "a"}

\* The hashes a raw string scanner has counted when the loop is looked at:
\* none, or so many that MaxHashWindow more reach the limit.
HashCounts == {0} \cup ((MaxHashes - MaxHashWindow)..MaxHashes)

\* The too-many-hashes messages of the `r` arm and of scan_raw_byte_string.
TooManyHashes ==
    {"too many # symbols (raw string)", "too many # symbols (raw byte string)"}

\* A raw string scanner in its hashes loop: `hashes` were counted, and the
\* source is the text that follows them.
InitHashes ==
    /\ InitReader(Texts(HashChars, MaxHashWindow))
    /\ hashes \in HashCounts
    /\ override_span = <<>>
    /\ retokenized = <<>>

\* `while self.ch_is('#') { ... }` of the `r` arm and of
\* scan_raw_byte_string, from the character the reader was brought to.
ScanHashes ==
    /\ phase = "raw"
    /\ \E msg \in TooManyHashes :
           LET h == raw_hashes_loop(new_raw(Reader).s, hashes, start_pos, msg)
           IN  /\ InstallReader(Res([Reader EXCEPT !.s = h.s], NoRet),
                                "raw_hashes_loop")
               /\ hashes' = h.v
               /\ phase' = IF h.s.abort = "" THEN "primed" ELSE PhaseOf(h.s.abort)
    /\ UNCHANGED <<buffered, drained>>

SpecHashes == InitHashes /\ [][ScanHashes]_vars

\* The characters after the `r#` of SpecRawIdents: the two of the prefix,
\* a name character, the name that cannot be raw, and a separator.
RawIdentChars == {"r", "#", "a", "_", " "}

\* A file that starts with `r#`.
InitRawIdents ==
    /\ InitFile({<<"r", "#">> \o t : t \in Texts(RawIdentChars, MaxRawIdentBody)})
    /\ override_span = <<>>
    /\ retokenized = <<>>

SpecRawIdents == InitRawIdents /\ [][NextTokens]_vars

\* One literal of every kind, and the character literal of two characters
\* that the lifetime branch recovers.
SuffixedLiterals ==
    {<<"'", "a", "'">>, <<"b", "'", "a", "'">>,
     <<"\"", "a", "\"">>, <<"b", "\"", "a", "\"">>,
     <<"1">>, <<"1", ".", "0">>,
     <<"r", "#", "\"", "a", "\"", "#">>, <<"b", "r", "\"", "a", "\"">>,
     <<"'", "a", "b", "'">>}

\* The characters after the literal: a suffix character, the underscore and
\* a separator.
SuffixChars == {"s", "_", " "}

\* A file that starts with a literal.
InitSuffixes ==
    /\ InitFile({l \o t : l \in SuffixedLiterals,
                          t \in Texts(SuffixChars, MaxSuffixLen)})
    /\ override_span = <<>>
    /\ retokenized = <<>>

SpecSuffixes == InitSuffixes /\ [][NextTokens]_vars

\* The first characters of the numbers of SpecNumbers: a zero, another
\* digit, and a base prefix.
NumberStarts == {<<"0">>, <<"1">>, <<"0", "b">>}

\* The characters after them: a digit, the underscore, the dot, the exponent
\* marker, the prefix of base 16 and a sign.
NumberChars == {"1", "_", ".", "e", "x", "-"}

\* A file that starts with a number.
InitNumbers ==
    /\ InitFile({p \o t : p \in NumberStarts,
                          t \in Texts(NumberChars, MaxNumberBody)})
    /\ override_span = <<>>
    /\ retokenized = <<>>

SpecNumbers == InitNumbers /\ [][NextTokens]_vars

\* The characters that start the operators of more than one character.
PunctStarts ==
    {".", ":", "=", "!", "<", ">", "-", "&", "|", "+", "*", "/", "^", "%"}

\* The characters that continue them.
PunctChars == {"=", ".", "<", ">", "-", "&", "|", ":"}

\* A file that starts with a punctuation character.
InitPunct ==
    /\ InitFile({<<c>> \o t : c \in PunctStarts,
                              t \in Texts(PunctChars, MaxPunctBody)})
    /\ override_span = <<>>
    /\ retokenized = <<>>

SpecPunct == InitPunct /\ [][NextTokens]_vars

\* The characters of the bodies of SpecStrings: the quote, the backslash,
\* and two characters of the text, one of them the byte string prefix.
StringChars == {"\"", "\\", "a", "b"}

\* A file that starts with the opening quote of a string or a byte string.
InitStrings ==
    /\ InitFile({p \o t : p \in {<<"\"">>, <<"b", "\"">>},
                          t \in Texts(StringChars, MaxStringBody)})
    /\ override_span = <<>>
    /\ retokenized = <<>>

SpecStrings == InitStrings /\ [][NextTokens]_vars

\* One token for every recoverable error: a bare CR in a block doc comment
\* and in a raw string, a digit that is none of the base, the suffix `_`, a
\* float of base 2, a character that is not ASCII in a raw byte string, a
\* lifetime that starts with a digit, and a raw identifier that cannot be
\* raw.
FlawedTokens ==
    {<<"/", "*", "*", "\r", "*", "/">>,
     <<"r", "\"", "\r", "\"">>,
     <<"0", "b", "2">>,
     <<"'", "a", "'", "_">>,
     <<"0", "b", "1", ".", "1">>,
     <<"b", "r", "\"">> \o Utf8("U+20AC") \o <<"\"">>,
     <<"'", "1">>,
     <<"r", "#", "_">>}

\* The characters after the token: a separator, a character that starts no
\* token, and a name character.
AfterFlawChars == {" ", "\\", "a"}

\* A file that starts with a token that has a recoverable error.
InitRecoverable ==
    /\ InitFile({f \o t : f \in FlawedTokens,
                          t \in Texts(AfterFlawChars, MaxAfterFlaw)})
    /\ override_span = <<>>
    /\ retokenized = <<>>

NextRecoverable ==
    \/ Setup
    \/ TryNextToken

SpecRecoverable == InitRecoverable /\ [][NextRecoverable]_vars

\* The characters of the sources of SpecDispatch: the two prefixes of the
\* dispatcher, the quotes and the hash they may be followed by, two digits,
\* and the letters of the base prefixes and of the exponent.
DispatchChars == {"b", "r", "\"", "'", "#", "0", "1", "x", "o", "e"}

InitDispatch ==
    /\ InitFile(Texts(DispatchChars, MaxLen))
    /\ override_span = <<>>
    /\ retokenized = <<>>

\* The tokens of a file of prefixes, quotes, hashes and digits.
SpecDispatch == InitDispatch /\ [][NextTokens]_vars

\* The characters of the comments of SpecCarriageReturns: the carriage
\* return, the line feed, and a character of the text.
CarriageReturnChars == {"\r", "\n", "a"}

\* A file that is one block doc comment.
InitCarriageReturns ==
    /\ InitFile({<<"/", "*", "*">> \o t \o <<"*", "/">> :
                     t \in Texts(CarriageReturnChars, MaxCrBody)})
    /\ override_span = <<>>
    /\ retokenized = <<>>

\* The tokens of a block doc comment of carriage returns and line feeds.
SpecCarriageReturns == InitCarriageReturns /\ [][NextTokens]_vars

NextRetokenize ==
    \/ Retokenize
    \/ NextToken
    \/ Bump

\* A reader made by retokenize, read with next_token and moved with bump.
SpecRetokenize == InitRetokenize /\ [][NextRetokenize]_vars

\* ----------------------------------------------------------- properties
\* The calls that pull a token, and the constructors.
TokenCalls == {"try_next_token", "next_token", "try_real_token", "real_token"}
Constructors == {"new_or_buffered_errs", "setup"}

\* The panic of the assertion at the entry of try_next_token.
AssertionFailed == "assertion failed: self.fatal_errs.is_empty()"

\* The kinds real_token pulls past.
Trivia == {"Whitespace", "Comment", "Shebang"}

\* The reader new_raw_internal builds over the source.
Built ==
    [s |-> [pos |-> start_pos, next_pos |-> start_pos, ch |-> "\n",
            end |-> Len(src), diags |-> <<>>, fatal_errs |-> <<>>,
            raw_ids |-> <<>>, abort |-> ""],
     peek_tok |-> Plain("Eof"), peek_span |-> DUMMY_SP,
     peek_span_src_raw |-> DUMMY_SP, token |-> Plain("Eof"),
     span |-> DUMMY_SP, span_src_raw |-> DUMMY_SP, returned |-> <<>>]

\* The reader new_raw builds over the source, before any token is read.
Fresh == new_raw(Built)

\* The tokens at most n successive refills from rd find, each with its span
\* and the offset the cursor stands at after it, up to the first Eof or the
\* first refill that fails.
RECURSIVE Scanned(_, _)
Scanned(rd, n) ==
    IF n = 0
    THEN <<>>
    ELSE LET a == advance_token(rd)
         IN  IF ~a.ok
             THEN <<>>
             ELSE <<[tok |-> a.rd.peek_tok, sp |-> a.rd.peek_span,
                     end |-> a.rd.s.pos]>>
                  \o (IF a.rd.peek_tok.kind = "Eof"
                      THEN <<>>
                      ELSE Scanned(a.rd, n - 1))

\* The tokens of the source, in order.
SourceTokens == Scanned(Fresh, Len(src) + 1)

\* The tokens st of a source have a k-th one: the stream repeats its Eof for
\* ever.
HasNth(st, k) ==
    \/ k <= Len(st)
    \/ (st # <<>> /\ st[Len(st)].tok.kind = "Eof")

\* The k-th of the tokens st of a source, as the stream returns it.
Nth(st, k) ==
    TokenAndSpan(st[IF k <= Len(st) THEN k ELSE Len(st)].tok,
                 st[IF k <= Len(st) THEN k ELSE Len(st)].sp)

\* The offset the k-th of the tokens st ends at.
EndOfNth(st, k) == st[IF k <= Len(st) THEN k ELSE Len(st)].end

\* The bytes of the source under a span, and under the spans of a sequence
\* of tokens.
Slice(sp) == SubSeq(src, src_index(sp.lo) + 1, src_index(sp.hi))
RECURSIVE SourceUnder(_)
SourceUnder(ts) ==
    IF ts = <<>> THEN <<>> ELSE Slice(Head(ts).sp) \o SourceUnder(Tail(ts))

\* C1: for a reader over a whole file with no override span, the spans of
\* the tokens returned so far (trivia included) tile the source: the first
\* starts at start_pos, each starts where the one before ended, none runs
\* backwards, a returned Eof ends at end_pos, and the source slices under
\* the spans up to an Eof, concatenated, are the source byte for byte.
SpansTileSource ==
    override_span = <<>> =>
        /\ \A i \in 1..Len(returned) :
              /\ returned[i].sp.lo =
                     (IF i = 1 THEN start_pos ELSE returned[i - 1].sp.hi)
              /\ returned[i].sp.lo <= returned[i].sp.hi
        /\ \A i \in 1..Len(returned) :
              returned[i].tok.kind = "Eof" =>
                  /\ returned[i].sp.hi = end_pos
                  /\ SourceUnder(SubSeq(returned, 1, i)) = src

\* A whole file starting past offset 0 was read to its Eof by next_token:
\* three tokens, white space among them, and the Eof.
SpansTileSourceWitness ==
    /\ override_span = <<>>
    /\ start_pos = 2
    /\ last_call = "next_token"
    /\ Len(returned) = 4
    /\ returned[2].tok.kind = "Whitespace"
    /\ returned[4].tok.kind = "Eof"

EofReturned == \E i \in 1..Len(returned) : returned[i].tok.kind = "Eof"

\* C3: once an Eof has been returned, a next_token call returns Eof again,
\* with the span of every Eof returned before, and leaves pos, next_pos, ch,
\* peek_tok, peek_span, span_src_raw and fatal_errs as they were.
EofIsIdempotent ==
    [][(EofReturned /\ last_call' = "next_token") =>
           /\ ret'.kind = "Ok"
           /\ ret'.tok = Plain("Eof")
           /\ \A i \in 1..Len(returned) :
                 returned[i].tok.kind = "Eof" => ret'.sp = returned[i].sp
           /\ UNCHANGED <<pos, next_pos, ch, peek_tok, peek_span,
                          span_src_raw, fatal_errs>>]_vars

\* next_token returned the Eof of a source that is not empty for the second
\* time.
EofIsIdempotentWitness ==
    /\ last_call = "next_token"
    /\ ret.kind = "Ok"
    /\ ret.tok.kind = "Eof"
    /\ EofCount = 2
    /\ Len(src) > 0

\* C4: after a constructor and after every next_token that returned, the
\* reader is one token ahead: the tokens returned so far are the first
\* tokens of the source in order, the peek buffer holds the token after them
\* with its span, and pos is the offset that token ends at (the hi of its
\* span when no override span replaces it).
OneTokenAhead ==
    (phase = "ready" /\ last_call \in Constructors \cup {"next_token"}) =>
        LET st == SourceTokens
        IN  /\ \A k \in 1..Len(returned) :
                  HasNth(st, k) /\ returned[k] = Nth(st, k)
            /\ HasNth(st, Len(returned) + 1)
            /\ TokenAndSpan(peek_tok, peek_span) = Nth(st, Len(returned) + 1)
            /\ pos = EndOfNth(st, Len(returned) + 1)
            /\ override_span = <<>> =>
                  (peek_span.hi = pos /\ peek_span_src_raw = peek_span)

\* The second next_token of a whole file returned, and a third token that
\* is not Eof waits in the peek buffer.
OneTokenAheadWitness ==
    /\ phase = "ready"
    /\ last_call = "next_token"
    /\ override_span = <<>>
    /\ start_pos = 2
    /\ Len(returned) = 2
    /\ peek_tok.kind \notin {"Eof", "Whitespace"}

\* C5: peek returns the peek buffer and changes no field of the reader, and
\* a next_token called right after it that returns, returns the same token
\* and span.
PeekIsPure ==
    [][/\ last_call' = "peek" =>
              /\ ret' = Ok(TokenAndSpan(peek_tok, peek_span))
              /\ phase' = phase
              /\ UNCHANGED <<src, start_pos, override_span, end_src_index,
                             next_pos, pos, ch, peek_tok, peek_span,
                             peek_span_src_raw, fatal_errs, token, span,
                             span_src_raw, raw_identifier_spans, diags,
                             returned>>
       /\ (last_call = "peek" /\ last_call' = "next_token"
              /\ ret'.kind = "Ok") =>
              (ret'.tok = ret.tok /\ ret'.sp = ret.sp)]_vars

\* peek showed an identifier after a token had been returned.
PeekIsPureWitness ==
    /\ last_call = "peek"
    /\ ret.kind = "Ok"
    /\ ret.tok.kind = "Ident"
    /\ returned # <<>>

\* C6: a real_token (or try_real_token) that returns pulls one or more
\* tokens of the source in order, all but the last of them Whitespace,
\* Comment or Shebang, returns the last, which is none of these (a
\* DocComment is returned), and leaves it and its span in `token` and
\* `span`.
RealTokenSkipsTrivia ==
    [][(last_call' \in {"real_token", "try_real_token"}
            /\ ret'.kind = "Ok") =>
           /\ Len(returned') > Len(returned)
           /\ SubSeq(returned', 1, Len(returned)) = returned
           /\ LET st == SourceTokens
              IN  \A i \in (Len(returned) + 1)..Len(returned') :
                      /\ HasNth(st, i)
                      /\ returned'[i] = Nth(st, i)
                      /\ (i < Len(returned'))
                             = (returned'[i].tok.kind \in Trivia)
           /\ returned'[Len(returned')] = TokenAndSpan(ret'.tok, ret'.sp)
           /\ token' = ret'.tok
           /\ span' = ret'.sp]_vars

\* real_token pulled past white space and returned the identifier after it.
RealTokenSkipsTriviaWitness ==
    /\ last_call = "real_token"
    /\ ret.kind = "Ok"
    /\ ret.tok.kind = "Ident"
    /\ token = ret.tok
    /\ Len(returned) >= 2
    /\ returned[Len(returned) - 1].tok.kind = "Whitespace"

\* C7: try_next_token returns Err exactly when its refill buffered a fatal
\* diagnostic: it returns Err iff fatal_errs, empty at the call, holds one
\* diagnostic after it, a fatal one that has not been emitted; and when it
\* returns Ok, fatal_errs is empty.
ErrIffFatalBuffered ==
    [][last_call' = "try_next_token" =>
           /\ (ret'.kind = "Err") <=>
                  (fatal_errs = <<>> /\ Len(fatal_errs') = 1)
           /\ ret'.kind = "Err" =>
                  (fatal_errs'[1].level = "fatal" /\ diags' = diags)
           /\ ret'.kind = "Ok" => fatal_errs' = <<>>]_vars

\* try_next_token returned Err after the stream had returned a token.
ErrIffFatalBufferedWitness ==
    /\ last_call = "try_next_token"
    /\ ret.kind = "Err"
    /\ Len(fatal_errs) = 1
    /\ returned # <<>>

\* C8, as stated: a fatal lexical error surfaces from try_next_token,
\* try_real_token and new_or_buffered_errs as an Err with the diagnostic
\* buffered in fatal_errs, never as a FatalError raised from inside the
\* call.
FatalErrorsAreBuffered ==
    last_call \in {"try_next_token", "try_real_token", "new_or_buffered_errs"}
        => phase # "raised"

\* The diagnostics the reader has reported: buffered, drained or emitted.
Reported == fatal_errs \o buffered \o diags

\* An unknown-start-of-token error has been reported.
Stuck ==
    \E i \in 1..Len(Reported) : Reported[i].msg = "unknown start of token"

\* C9: the call that reports an unknown start of token ends with pos on the
\* offending character (the diagnostic of a whole-file reader starts there);
\* from then on no call moves pos or returns a token of the stream, every
\* token call made with fatal_errs drained fails with one new
\* unknown-start diagnostic (buffered by the try_ calls, which return Err),
\* and peek shows nothing that extends past pos.
UnknownStartIsStuck ==
    [][/\ (~Stuck /\ Stuck') =>
              /\ src_index(pos') < Len(src)
              /\ ch' = src[src_index(pos') + 1]
              /\ override_span = <<>> =>
                     \A i \in 1..Len(Reported') :
                         Reported'[i].msg = "unknown start of token" =>
                             Reported'[i].sp.lo = pos'
       /\ Stuck =>
              /\ pos' = pos
              /\ ch' = ch
              /\ returned' = returned
              /\ (last_call' \in TokenCalls /\ fatal_errs = <<>>) =>
                     /\ ret'.kind # "Ok"
                     /\ Len(fatal_errs') + Len(diags') = Len(diags) + 1
                     /\ \A i \in 1..Len(fatal_errs') :
                           fatal_errs'[i].msg = "unknown start of token"
                     /\ last_call' \in {"try_next_token", "try_real_token"}
                            => (ret'.kind = "Err" /\ Len(fatal_errs') = 1)
              /\ (last_call' = "peek" /\ override_span = <<>>) =>
                     ret'.sp.hi <= pos]_vars

\* After an unknown-start error was drained, a retry failed again.
UnknownStartIsStuckWitness ==
    /\ drained >= 1
    /\ Stuck
    /\ last_call = "try_next_token"
    /\ ret.kind = "Err"
    /\ Len(fatal_errs) = 1

\* C10: fatal_errs, empty after construction, stays empty over every call
\* that returns without Err; it becomes non-empty only when a try_ call
\* returns Err; and a token call trips the assertion at the entry of
\* try_next_token exactly when it is made with fatal_errs not drained.
AssertionHoldsUnlessUndrained ==
    [][/\ (fatal_errs = <<>> /\ phase' = "ready" /\ ret'.kind # "Err") =>
              fatal_errs' = <<>>
       /\ (fatal_errs = <<>> /\ fatal_errs' # <<>>) =>
              (last_call' \in {"try_next_token", "try_real_token"}
                  /\ ret'.kind = "Err")
       /\ last_call' \in TokenCalls =>
              ((phase' = AssertionFailed) <=> (fatal_errs # <<>>))
       /\ last_call' \notin TokenCalls => phase' # AssertionFailed]_vars

\* A token call was made after an Err whose diagnostic was not drained, and
\* the assertion failed.
AssertionHoldsUnlessUndrainedWitness ==
    /\ phase = AssertionFailed
    /\ last_call \in TokenCalls
    /\ Len(fatal_errs) = 1

\* C11: every span the stream hands out with a token is the override span
\* when the reader has one, and otherwise the raw span (lo, hi,
\* NO_EXPANSION) of the bytes scanned for the token.  After a constructor or
\* a token call that did not fail the span in the peek buffer is the
\* override span, or else runs with no expansion from where the token
\* before it ended (start_pos for the first) to pos, over bytes the call
\* itself scanned; next_token returns the span that waited in the peek
\* buffer and peeks the span of exactly the bytes it scanned, from the old
\* pos to the new; every span returned so far is of that form, and after
\* real_token the reader's own span field is the span returned.
SpanIsOverrideOrRaw ==
    [][(last_call' \in TokenCalls \cup Constructors /\ phase' = "ready"
            /\ ret'.kind # "Err") =>
           /\ override_span # <<>> =>
                 /\ peek_span' = override_span[1]
                 /\ \A i \in 1..Len(returned') :
                       returned'[i].sp = override_span[1]
           /\ override_span = <<>> =>
                 /\ peek_span' =
                        Span(IF returned' = <<>> THEN start_pos
                             ELSE returned'[Len(returned')].sp.hi,
                             pos', NO_EXPANSION)
                 /\ peek_span'.lo >= pos
                 /\ peek_span'.lo <= peek_span'.hi
                 /\ \A i \in 1..Len(returned') :
                       returned'[i].sp =
                           Span(IF i = 1 THEN start_pos
                                ELSE returned'[i - 1].sp.hi,
                                returned'[i].sp.hi, NO_EXPANSION)
                 /\ last_call' \in {"next_token", "try_next_token"} =>
                       peek_span' = Span(pos, pos', NO_EXPANSION)
           /\ ret'.kind = "Ok" =>
                 /\ ret'.sp = returned'[Len(returned')].sp
                 /\ last_call' \in {"real_token", "try_real_token"} =>
                       ret'.sp = span'
                 /\ last_call' \in {"next_token", "try_next_token"} =>
                       ret'.sp = peek_span]_vars

\* A reader with an override span returned an identifier, then white space,
\* each with the override span, and peeks a third token that is not Eof.
SpanIsOverrideOrRawWitness ==
    /\ override_span # <<>>
    /\ last_call = "next_token"
    /\ Len(returned) = 2
    /\ returned[1].tok.kind = "Ident"
    /\ returned[1].sp = override_span[1]
    /\ ret.tok.kind = "Whitespace"
    /\ ret.sp = override_span[1]
    /\ peek_tok.kind # "Eof"
    /\ peek_span = override_span[1]

\* C12: in every state after the priming bump, pos <= next_pos <= the end
\* offset; when ch is Some(c), next_pos - pos is the UTF-8 length of c and c
\* is the character stored at pos; when ch is None, pos = next_pos = the end
\* offset.
CursorIsWellFormed ==
    phase # "raw" =>
        /\ pos <= next_pos
        /\ next_pos <= start_pos + end_src_index
        /\ ch # None =>
              /\ next_pos - pos = len_utf8(ch)
              /\ src_index(pos) < Len(src)
              /\ char_at(src_index(pos)) = ch
        /\ ch = None =>
              /\ pos = next_pos
              /\ pos = start_pos + end_src_index

\* A bump stopped on a three-byte character that follows another character
\* and ends the source.
CursorIsWellFormedWitness ==
    /\ last_call = "bump"
    /\ ch = "U+20AC"
    /\ pos > start_pos
    /\ next_pos = pos + 3
    /\ next_pos = end_pos

InvalidSpan(sp) ==
    sp.lo > sp.hi \/ lookup_byte_offset(sp.lo) # lookup_byte_offset(sp.hi)

\* The cursor s reads no character outside [lo, hi): the current character
\* lies in the range whole, and nextch and nextnextch yield a character
\* only when it starts before hi.
Confined(s, lo, hi) ==
    /\ s.ch # None => (lo <= s.pos /\ s.pos + len_utf8(s.ch) <= hi)
    /\ nextch(s) # None => s.next_pos < hi
    /\ nextnextch(s) # None => s.next_pos + len_utf8(nextch(s)) < hi

\* The cursor after n bumps from s.
RECURSIVE Bumped(_, _)
Bumped(s, n) == IF n = 0 THEN s ELSE Bumped(bump(s), n - 1)

\* C14: a reader made by retokenize(span), span with both ends on
\* character boundaries, is confined to [span.lo, span.hi), shrunk to
\* [span.lo, span.lo) when span.lo > span.hi or the ends lie in different
\* files: the reader stops at the end of the range; after the seek every
\* number of bumps leaves a cursor whose current character lies inside the
\* range and whose nextch and nextnextch yield no character at or beyond its
\* end, and so does the cursor between calls; the raw span of every token
\* but Eof, peeked or returned, lies inside the range; and a range of zero
\* length gives Eof as the first token.
RetokenizeIsConfined ==
    phase # "raw" =>
        LET lo == retokenize_span(retokenized[1]).lo
            hi == retokenize_span(retokenized[1]).hi
        IN  /\ lo = retokenized[1].lo
            /\ InvalidSpan(retokenized[1]) => hi = lo
            /\ ~InvalidSpan(retokenized[1]) => hi = retokenized[1].hi
            /\ start_pos + end_src_index = hi
            /\ lo <= pos /\ pos <= hi
            /\ Confined(Self, lo, hi)
            /\ \A n \in 1..(MaxLen + 2) :
                  Confined(Bumped(retokenize_seek(Built,
                               retokenize_span(retokenized[1])).s, n), lo, hi)
            /\ (phase = "ready" /\ peek_tok.kind # "Eof") =>
                  /\ lo <= peek_span_src_raw.lo
                  /\ peek_span_src_raw.lo <= peek_span_src_raw.hi
                  /\ peek_span_src_raw.hi <= hi
            /\ \A i \in 1..Len(returned) :
                  returned[i].tok.kind # "Eof" =>
                      /\ lo <= returned[i].sp.lo
                      /\ returned[i].sp.lo <= returned[i].sp.hi
                      /\ returned[i].sp.hi <= hi
            /\ (phase = "ready" /\ lo = hi) =>
                  /\ peek_tok.kind = "Eof"
                  /\ \A i \in 1..Len(returned) : returned[i].tok.kind = "Eof"

\* A reader retokenizing the one slash in the middle of a source returned
\* it as a division sign, although a second slash follows the range, and
\* peeks Eof.
RetokenizeIsConfinedWitness ==
    /\ retokenized # <<>>
    /\ retokenized[1].lo = start_pos + 1
    /\ retokenized[1].hi = start_pos + 2
    /\ src = <<"a", "/", "/">>
    /\ last_call = "next_token"
    /\ ret.tok.kind = "BinOp"
    /\ peek_tok.kind = "Eof"

\* The byte of the source at offset o, None past its end.
At(o) == IF src_index(o) < Len(src) THEN src[src_index(o) + 1] ELSE None

\* A block comment opens at offset o.
OpensBlock(o) == At(o) = "/" /\ At(o + 1) = "*"

\* Reading the markers from offset o on, left to right, each character part
\* of at most one marker, with `level` comments open: the offset after the
\* marker that closes the last of them, or 0 when the source ends first.
RECURSIVE Closes(_, _)
Closes(o, level) ==
    IF level = 0 THEN o
    ELSE IF At(o) = None THEN 0
    ELSE IF At(o) = "/" /\ At(o + 1) = "*" THEN Closes(o + 2, level + 1)
    ELSE IF At(o) = "*" /\ At(o + 1) = "/" THEN Closes(o + 2, level - 1)
    ELSE Closes(o + 1, level)

\* A token the reader has scanned, returned or peeked, with its span.
ScannedTokens ==
    {returned[i] : i \in 1..Len(returned)}
        \cup (IF phase = "ready"
              THEN {TokenAndSpan(peek_tok, peek_span)} ELSE {})

\* Every token scanned where the source has the opening marker of a block
\* comment is a comment (Comment or DocComment) that ends exactly after the
\* marker bringing the nesting level back to zero, and every block comment
\* token starts at an opening marker; a call has raised only where the
\* token to scan opened a block comment that the source ends inside, with
\* one fatal diagnostic, unterminated block comment or unterminated block
\* doc-comment, over the span from the opening marker to the end of the
\* source.
BlockCommentsWellScanned ==
    /\ \A t \in ScannedTokens :
          /\ OpensBlock(t.sp.lo) =>
                /\ t.tok.kind \in {"Comment", "DocComment"}
                /\ Closes(t.sp.lo + 2, 1) # 0
                /\ t.sp.hi = Closes(t.sp.lo + 2, 1)
          /\ (t.tok.kind \in {"Comment", "DocComment"}
                  /\ At(t.sp.lo + 1) # "/") => OpensBlock(t.sp.lo)
    /\ phase = "raised" =>
          /\ Len(diags) = 1
          /\ diags[1].level = "fatal"
          /\ diags[1].msg \in {"unterminated block comment",
                               "unterminated block doc-comment"}
          /\ diags[1].sp.lo = (IF last_call = "setup" THEN start_pos
                               ELSE peek_span.hi)
          /\ diags[1].sp.hi = end_pos
          /\ diags[1].sp.ctxt = NO_EXPANSION
          /\ OpensBlock(diags[1].sp.lo)
          /\ Closes(diags[1].sp.lo + 2, 1) = 0
          /\ pos = end_pos

\* C15: a block comment token starts at its opening marker and ends exactly
\* after the closing marker that brings the nesting level back to zero, the
\* markers counted left to right with no character part of two markers;
\* the call that scans from an opening marker returns with the cursor
\* right after that closing marker when there is one, and raises the fatal
\* unterminated block comment error when the source ends with a comment
\* still open.
BlockCommentEndsAtMatchingClose ==
    [][/\ BlockCommentsWellScanned'
       /\ (OpensBlock(pos) /\ Closes(pos + 2, 1) = 0) => phase' = "raised"
       /\ (OpensBlock(pos) /\ Closes(pos + 2, 1) # 0) =>
              (phase' = "ready" /\ pos' = Closes(pos + 2, 1))]_vars

\* A comment with a comment nested inside was returned whole: eight bytes
\* up to the second closing marker.
BlockCommentEndsAtMatchingCloseWitness ==
    /\ src = <<"/", "*", "/", "*", "*", "/", "*", "/">>
    /\ returned # <<>>
    /\ returned[1].tok.kind = "Comment"
    /\ returned[1].sp = Span(start_pos, start_pos + 8, NO_EXPANSION)
    /\ peek_tok.kind = "Eof"

\* The text of a block comment reads as a doc comment: at least five bytes,
\* the third `!`, or the third `*` and the fourth not `*`.
ReadsAsBlockDoc(text) ==
    /\ Len(text) >= 5
    /\ \/ text[3] = "!"
       \/ (text[3] = "*" /\ text[4] # "*")

\* C16: a terminated block comment is emitted as DocComment, with its text
\* as the symbol, iff its text starts with `/**` whose fourth byte is not
\* `*`, or with `/*!`, and is at least five bytes long; every other block
\* comment is emitted as Comment.
BlockDocCommentIffMarked ==
    \A t \in ScannedTokens :
        OpensBlock(t.sp.lo) =>
            /\ t.tok.kind \in {"Comment", "DocComment"}
            /\ (t.tok.kind = "DocComment") <=> ReadsAsBlockDoc(Slice(t.sp))
            /\ t.tok.kind = "DocComment" => t.tok.sym = Slice(t.sp)
            /\ t.tok.kind = "Comment" => t.tok.sym = <<>>

\* The five bytes of an inner doc comment were returned as DocComment with
\* the text as the symbol, and the three bytes after them as `*`, `*`, `/`.
BlockDocCommentIffMarkedWitness ==
    /\ Len(returned) = 4
    /\ returned[1].tok.kind = "DocComment"
    /\ Slice(returned[1].sp) = <<"/", "*", "!", "*", "/">>
    /\ returned[1].tok.sym = <<"/", "*", "!", "*", "/">>
    /\ returned[4].tok.kind = "BinOp"
    /\ peek_tok.kind = "Eof"

\* A line comment opens at offset o.
OpensLine(o) == At(o) = "/" /\ At(o + 1) = "/"

\* The text of a line comment reads as a doc comment: the third byte `!`,
\* or the third `/` and no fourth `/`.
ReadsAsLineDoc(text) ==
    /\ Len(text) >= 3
    /\ \/ text[3] = "!"
       \/ (text[3] = "/" /\ (Len(text) >= 4 => text[4] # "/"))

\* C17: a line comment is emitted as DocComment, with its text as the
\* symbol, iff its text starts with `///` not followed by a fourth `/`, or
\* with `//!`, and as Comment otherwise; the decision scan_comment takes
\* inline, which fixes the kind of the token, is the value of
\* is_doc_comment on the text of the comment.
LineDocCommentIffMarked ==
    \A t \in ScannedTokens :
        OpensLine(t.sp.lo) =>
            /\ t.tok.kind \in {"Comment", "DocComment"}
            /\ (t.tok.kind = "DocComment") <=> ReadsAsLineDoc(Slice(t.sp))
            /\ (t.tok.kind = "DocComment") <=> is_doc_comment(Slice(t.sp))
            /\ t.tok.kind = "DocComment" => t.tok.sym = Slice(t.sp)
            /\ t.tok.kind = "Comment" => t.tok.sym = <<>>

\* An inner doc comment was returned as DocComment, and after the line end
\* the three slashes that end the source as DocComment too.
LineDocCommentIffMarkedWitness ==
    /\ src = <<"/", "/", "!", "\n", "/", "/", "/">>
    /\ start_pos = 2
    /\ Len(returned) = 3
    /\ returned[1].tok = Named("DocComment", <<"/", "/", "!">>)
    /\ returned[2].tok.kind = "Whitespace"
    /\ returned[3].tok = Named("DocComment", <<"/", "/", "/">>)

\* The first offset from o on where the source ends or has a line feed or
\* a carriage return followed by a line feed.
RECURSIVE LineEnd(_)
LineEnd(o) ==
    IF At(o) = None \/ At(o) = "\n" \/ (At(o) = "\r" /\ At(o + 1) = "\n")
    THEN o
    ELSE LineEnd(o + 1)

\* The token scanned after the i-th one returned.
Following(i) ==
    IF i < Len(returned) THEN returned[i + 1]
    ELSE TokenAndSpan(peek_tok, peek_span)

\* C18: a line comment token ends immediately before the first line feed,
\* or carriage return followed by a line feed, after its two slashes, or at
\* the end of the source: a carriage return not followed by a line feed is
\* inside the comment, the line end is in neither the span nor the symbol
\* of a DocComment, and the token scanned after the comment is Whitespace
\* that starts with the line end.
LineCommentEndsBeforeLineEnd ==
    /\ phase \in {"raw", "ready"}
    /\ \A t \in ScannedTokens :
          OpensLine(t.sp.lo) =>
              /\ t.sp.hi = LineEnd(t.sp.lo + 2)
              /\ \A o \in t.sp.lo..(t.sp.hi - 1) :
                    /\ At(o) # "\n"
                    /\ At(o) = "\r" => At(o + 1) # "\n"
              /\ t.tok.kind = "DocComment" => t.tok.sym = Slice(t.sp)
    /\ \A i \in 1..Len(returned) :
          (OpensLine(returned[i].sp.lo) /\ At(returned[i].sp.hi) # None) =>
              /\ Following(i).tok.kind = "Whitespace"
              /\ Following(i).sp.lo = returned[i].sp.hi
              /\ Following(i).sp.hi > returned[i].sp.hi
              /\ At(Following(i).sp.lo) \in {"\n", "\r"}

\* A doc comment with a carriage return inside and a carriage return and
\* line feed after it was returned up to the line end, with an error for
\* the bare carriage return, and the line end was returned as Whitespace.
LineCommentEndsBeforeLineEndWitness ==
    /\ src = <<"/", "/", "/", "\r", "a", "\r", "\n">>
    /\ Len(returned) = 2
    /\ returned[1].tok = Named("DocComment", <<"/", "/", "/", "\r", "a">>)
    /\ returned[1].sp = Span(start_pos, start_pos + 5, NO_EXPANSION)
    /\ returned[2].tok.kind = "Whitespace"
    /\ returned[2].sp = Span(start_pos + 5, start_pos + 7, NO_EXPANSION)
    /\ Len(diags) = 1

\* A text with every carriage return that a line feed follows left out.
RECURSIVE CrLfToLf(_)
CrLfToLf(text) ==
    IF text = <<>> THEN <<>>
    ELSE IF Len(text) >= 2 /\ text[1] = "\r" /\ text[2] = "\n"
         THEN CrLfToLf(Tail(text))
         ELSE <<Head(text)>> \o CrLfToLf(Tail(text))

\* A text has a carriage return immediately followed by a line feed.
HasCrLf(text) ==
    \E i \in 1..(Len(text) - 1) : text[i] = "\r" /\ text[i + 1] = "\n"

\* C19: the text interned for every block doc comment is the source text of
\* the comment with every carriage return and line feed pair replaced by a
\* line feed, and has no carriage return immediately followed by a line
\* feed.
BlockDocTextIsNormalized ==
    \A t \in ScannedTokens :
        (OpensBlock(t.sp.lo) /\ t.tok.kind = "DocComment") =>
            /\ t.tok.sym = CrLfToLf(Slice(t.sp))
            /\ ~HasCrLf(t.tok.sym)

\* The tokens scanned so far in order, the peeked one last.
ScannedSeq ==
    returned \o (IF phase = "ready"
                 THEN <<TokenAndSpan(peek_tok, peek_span)>> ELSE <<>>)

\* The first offset from o on where the source ends or has a line feed.
RECURSIVE LineFeedOrEnd(_)
LineFeedOrEnd(o) ==
    IF At(o) = None \/ At(o) = "\n" THEN o ELSE LineFeedOrEnd(o + 1)

\* The source has `#!` at offset o.
PoundNotAt(o) == At(o) = "#" /\ At(o + 1) = "!"

\* What C20 says of the tokens but for the token after a Pound: a token is
\* Shebang iff it is the first of the stream, at the first byte of the
\* file, and the text there is `#!` not followed by `[`; then it runs up to
\* the first line feed or the end of the source; every other `#` is Pound.
ShebangOnlyAtStart(ts) ==
    \A i \in 1..Len(ts) :
        /\ (ts[i].tok.kind = "Shebang") <=>
               /\ i = 1
               /\ ts[i].sp.lo = start_pos
               /\ PoundNotAt(start_pos)
               /\ At(start_pos + 2) # "["
        /\ ts[i].tok.kind = "Shebang" =>
               /\ ts[i].sp.hi = LineFeedOrEnd(start_pos)
               /\ ts[i].tok.sym = Slice(ts[i].sp)
               /\ \A j \in 1..Len(ts) : ts[j].tok.kind = "Shebang" => j = 1
        /\ (At(ts[i].sp.lo) = "#" /\ ts[i].tok.kind # "Shebang") =>
               /\ ts[i].tok = Plain("Pound")
               /\ ts[i].sp.hi = ts[i].sp.lo + 1

\* C20, as stated: Shebang only as the first token, at the first byte of
\* the file, for `#!` not followed by `[`, up to the first line feed; and
\* `#!` anywhere else, and `#![` everywhere, is Pound followed by Not.
PoundNotElsewhere ==
    /\ ShebangOnlyAtStart(ScannedSeq)
    /\ \A i \in 1..(Len(ScannedSeq) - 1) :
          (PoundNotAt(ScannedSeq[i].sp.lo)
               /\ ScannedSeq[i].tok.kind # "Shebang") =>
              ScannedSeq[i + 1].tok = Plain("Not")

\* C20, amended: Shebang only as the first token, at the first byte of the
\* file, for `#!` not followed by `[`, up to the first line feed; and `#!`
\* anywhere else, and `#![` everywhere, is Pound followed by the token that
\* `!` starts: Not, or Ne when `=` follows the `!`.
PoundThenNotOrNeElsewhere ==
    /\ ShebangOnlyAtStart(ScannedSeq)
    /\ \A i \in 1..(Len(ScannedSeq) - 1) :
          (PoundNotAt(ScannedSeq[i].sp.lo)
               /\ ScannedSeq[i].tok.kind # "Shebang") =>
              /\ ScannedSeq[i + 1].sp.lo = ScannedSeq[i].sp.lo + 1
              /\ ScannedSeq[i + 1].tok =
                     (IF At(ScannedSeq[i].sp.lo + 2) = "="
                      THEN Plain("Ne") ELSE Plain("Not"))
              /\ At(ScannedSeq[i].sp.lo + 2) = "[" =>
                     ScannedSeq[i + 1].tok = Plain("Not")

\* A file of a shebang line and a `#` after the line feed was read: Shebang
\* up to the line feed, Whitespace, Pound, and Eof in the peek buffer.
PoundThenNotOrNeElsewhereWitness ==
    /\ src = <<"#", "!", "\n", "#">>
    /\ start_pos = 2
    /\ Len(returned) = 3
    /\ returned[1].tok = Named("Shebang", <<"#", "!">>)
    /\ returned[1].sp = Span(2, 4, NO_EXPANSION)
    /\ returned[2].tok.kind = "Whitespace"
    /\ returned[3].tok = Plain("Pound")
    /\ peek_tok = Plain("Eof")

\* The first offset from o on whose character does not continue an
\* identifier.
RECURSIVE IdentRunEnd(_)
IdentRunEnd(o) == IF ident_continue(At(o)) THEN IdentRunEnd(o + 1) ELSE o

\* After the quote at offset o comes an identifier start or a digit, and
\* after that no quote.
LifetimeShaped(o) ==
    /\ At(o) = "'"
    /\ (ident_start(At(o + 1)) \/ At(o + 1) \in DecDigits)
    /\ At(o + 2) # "'"

\* The bytes of the source in [lo, hi).
Bytes(lo, hi) == SubSeq(src, src_index(lo) + 1, src_index(hi))

\* C21: a call that scans from a quote followed by an identifier start or
\* a digit and then by no quote consumes the run of identifier characters:
\* when no quote follows the run it peeks Lifetime named by the quote and
\* the run, when a quote follows it peeks a Char literal without suffix
\* whose symbol is the run, and the cursor is after the run, or after the
\* quote.  A call that scans from any other quote either raises or peeks a
\* Char literal.
LifetimeUnlessQuoteFollows ==
    [][/\ LifetimeShaped(pos) =>
              /\ phase' = "ready"
              /\ peek_span'.lo = pos
              /\ At(IdentRunEnd(pos + 2)) # "'" =>
                    /\ peek_tok'.kind = "Lifetime"
                    /\ peek_tok'.sym = Bytes(pos, IdentRunEnd(pos + 2))
                    /\ peek_span'.hi = IdentRunEnd(pos + 2)
                    /\ pos' = IdentRunEnd(pos + 2)
              /\ At(IdentRunEnd(pos + 2)) = "'" =>
                    /\ peek_tok'.kind = "Literal"
                    /\ peek_tok'.sub = "Char"
                    /\ peek_tok'.sym = Bytes(pos + 1, IdentRunEnd(pos + 2))
                    /\ peek_tok'.suffix = <<>>
                    /\ peek_span'.hi = IdentRunEnd(pos + 2) + 1
                    /\ pos' = IdentRunEnd(pos + 2) + 1
       /\ (At(pos) = "'" /\ ~LifetimeShaped(pos)) =>
              \/ phase' = "raised"
              \/ /\ phase' = "ready"
                 /\ peek_tok'.kind = "Literal"
                 /\ peek_tok'.sub = "Char"
                 /\ peek_span'.lo = pos]_vars

\* The source 'a1' was scanned: a run of two identifier characters with a
\* quote after it, peeked as the Char literal a1.
LifetimeUnlessQuoteFollowsWitness ==
    /\ src = <<"'", "a", "1", "'">>
    /\ last_call = "setup"
    /\ peek_tok.kind = "Literal"
    /\ peek_tok.sub = "Char"
    /\ peek_tok.sym = <<"a", "1">>
    /\ pos = end_pos

\* Reading the body of a single-quoted literal from offset o on, `first`
\* at its first character: where the closing quote is (closed), or where
\* the search for it ends (not closed): at the end of the source, at a
\* slash that is not the first character, or at a line feed that no quote
\* follows.  A backslash takes the quote or backslash after it along.
RECURSIVE QuoteScan(_, _)
QuoteScan(o, first) ==
    IF At(o) = "'" THEN [closed |-> TRUE, at |-> o]
    ELSE IF At(o) = "\\" /\ At(o + 1) \in {"'", "\\"}
         THEN QuoteScan(o + 2, FALSE)
    ELSE IF \/ At(o) = None
            \/ (At(o) = "/" /\ ~first)
            \/ (At(o) = "\n" /\ At(o + 1) # "'")
         THEN [closed |-> FALSE, at |-> o]
    ELSE QuoteScan(o + 1, FALSE)

\* C30: a call that scans a single-quoted literal (from a quote that does
\* not start a lifetime) peeks, for three quotes in a row, the Char literal
\* whose symbol is the quote; otherwise the Char literal whose symbol is
\* the text up to the first quote that is not the second character of a
\* backslash pair; and it raises the fatal unterminated character literal
\* error, spanning from the opening quote to where the search stopped, when
\* the source ends, a slash that is not the first character of the body
\* comes, or a line feed comes that no quote follows, before that quote.
SingleQuotedEndsAtFirstQuote ==
    [][(At(pos) = "'" /\ ~LifetimeShaped(pos)) =>
           IF At(pos + 1) = "'" /\ At(pos + 2) = "'"
           THEN /\ phase' = "ready"
                /\ peek_tok'.kind = "Literal"
                /\ peek_tok'.sub = "Char"
                /\ peek_tok'.sym = <<"'">>
                /\ peek_span'.lo = pos
                /\ peek_span'.hi >= pos + 3
                /\ diags' = diags
           ELSE IF QuoteScan(pos + 1, TRUE).closed
           THEN /\ phase' = "ready"
                /\ peek_tok'.kind = "Literal"
                /\ peek_tok'.sub = "Char"
                /\ peek_tok'.sym = Bytes(pos + 1, QuoteScan(pos + 1, TRUE).at)
                /\ peek_span'.lo = pos
                /\ peek_span'.hi >= QuoteScan(pos + 1, TRUE).at + 1
                /\ diags' = diags
           ELSE /\ phase' = "raised"
                /\ diags' = Append(diags,
                       Diag("fatal", "unterminated character literal",
                            Span(pos, QuoteScan(pos + 1, TRUE).at,
                                 NO_EXPANSION)))
                /\ fatal_errs' = <<>>
                /\ returned' = returned]_vars

\* The source '\'' was scanned: the quote after the backslash is body, the
\* one after it closes the literal.
SingleQuotedEndsAtFirstQuoteWitness ==
    /\ src = <<"'", "\\", "'", "'">>
    /\ last_call = "setup"
    /\ peek_tok.kind = "Literal"
    /\ peek_tok.sym = <<"\\", "'">>
    /\ peek_span = Span(start_pos, start_pos + 4, NO_EXPANSION)

\* How many `#` the source has in a row from offset o on.
RECURSIVE HashRun(_)
HashRun(o) == IF At(o) = "#" THEN 1 + HashRun(o + 1) ELSE 0

\* The offset after the `r` of a raw string or the `br` of a raw byte
\* string that starts at o.
AfterR(o) == IF At(o) = "b" THEN o + 2 ELSE o + 1

\* A raw string or raw byte string opens at offset o: `r` or `br`, hashes,
\* a quote.
OpensRaw(o) ==
    /\ \/ At(o) = "r"
       \/ (At(o) = "b" /\ At(o + 1) = "r")
    /\ At(AfterR(o) + HashRun(AfterR(o))) = "\""

\* The first offset from o on with a quote that n hashes follow, or 0 when
\* the source has none.
RECURSIVE RawEnd(_, _)
RawEnd(o, n) ==
    IF At(o) = None THEN 0
    ELSE IF At(o) = "\"" /\ \A k \in 1..n : At(o + k) = "#" THEN o
    ELSE RawEnd(o + 1, n)

\* The source has a carriage return that no line feed follows in [lo, hi).
HasBareCr(lo, hi) ==
    \E o \in lo..(hi - 1) : At(o) = "\r" /\ At(o + 1) # "\n"

\* What C22 says of a call that scans from the opening of a raw string with
\* n hashes whose body starts at b, but for the symbol: it raises when no
\* quote followed by n hashes comes, and otherwise peeks a raw literal with
\* hash count n that ends with the first such quote and its hashes, a
\* suffix apart.
RawEndsAtFence(b, n) ==
    IF RawEnd(b, n) = 0
    THEN /\ phase' = "raised"
         /\ diags'[Len(diags')] =
                Diag("fatal", "unterminated raw string",
                     Span(AfterR(pos) - 1, AfterR(pos) - 1, NO_EXPANSION))
    ELSE /\ phase' = "ready"
         /\ peek_tok'.kind = "Literal"
         /\ peek_tok'.sub = (IF At(pos) = "b" THEN "ByteStrRaw" ELSE "StrRaw")
         /\ peek_tok'.n = n
         /\ peek_span'.lo = pos
         /\ peek_span'.hi >= RawEnd(b, n) + n + 1
         /\ peek_tok'.suffix = <<>> =>
                peek_span'.hi = RawEnd(b, n) + n + 1

\* C22, as stated: the literal ends at the first quote followed by at least
\* N hashes, carries hash count N, and its symbol is exactly the source
\* text between the opening quote and that quote.
RawSymbolIsSourceText ==
    [][OpensRaw(pos) =>
           LET n == HashRun(AfterR(pos))
               b == AfterR(pos) + HashRun(AfterR(pos)) + 1
           IN  /\ RawEndsAtFence(b, n)
               /\ RawEnd(b, n) # 0 =>
                      peek_tok'.sym = Bytes(b, RawEnd(b, n))]_vars

\* C22, amended: the literal ends at the first quote followed by at least
\* N hashes and carries hash count N; its symbol is exactly the source text
\* between the opening quote and that quote, except that a raw string (not
\* a raw byte string) with a carriage return in its body that no line feed
\* follows gets the symbol `??` and an error is reported.
RawSymbolIsSourceTextUnlessBareCr ==
    [][OpensRaw(pos) =>
           LET n == HashRun(AfterR(pos))
               b == AfterR(pos) + HashRun(AfterR(pos)) + 1
           IN  /\ RawEndsAtFence(b, n)
               /\ RawEnd(b, n) # 0 =>
                      IF At(pos) = "r" /\ HasBareCr(b, RawEnd(b, n))
                      THEN /\ peek_tok'.sym = <<"?", "?">>
                           /\ Len(diags') > Len(diags)
                      ELSE /\ peek_tok'.sym = Bytes(b, RawEnd(b, n))
                           /\ diags' = diags]_vars

\* A raw string of two hashes whose body is a quote and one hash was
\* scanned: the quote with one hash after it did not end it.
RawSymbolIsSourceTextUnlessBareCrWitness ==
    /\ src = <<"r", "#", "#", "\"", "\"", "#", "\"", "#", "#">>
    /\ last_call = "setup"
    /\ peek_tok.sub = "StrRaw"
    /\ peek_tok.n = 2
    /\ peek_tok.sym = <<"\"", "#">>
    /\ peek_span = Span(start_pos, start_pos + 9, NO_EXPANSION)

\* C23: the hash count of a raw string or raw byte string never exceeds
\* 65535 and never wraps around: when the run of hashes would take the
\* counter past 65535 the loop raises the too-many-hashes error with the
\* counter at 65535, on the first hash it cannot count; otherwise it counts
\* every hash of the run and reports nothing.
HashCountNeverWraps ==
    [][/\ hashes' <= MaxHashes
       /\ hashes' >= hashes
       /\ IF hashes + HashRun(start_pos) > MaxHashes
          THEN /\ phase' = "raised"
               /\ hashes' = MaxHashes
               /\ pos' = start_pos + (MaxHashes - hashes)
               /\ Len(diags') = 1
               /\ diags'[1].level = "fatal"
               /\ diags'[1].msg \in TooManyHashes
               /\ diags'[1].sp = Span(start_pos, pos' + 1, NO_EXPANSION)
          ELSE /\ phase' = "primed"
               /\ hashes' = hashes + HashRun(start_pos)
               /\ pos' = start_pos + HashRun(start_pos)
               /\ diags' = diags]_vars

\* The loop counted the 65535th hash and raised on the next one.
HashCountNeverWrapsWitness ==
    /\ src = <<"#", "#", "\"">>
    /\ phase = "raised"
    /\ hashes = MaxHashes
    /\ pos = start_pos + 1
    /\ last_call = "raw_hashes_loop"

\* `r#` and an identifier start are at offset o.
RawIdentAt(o) == At(o) = "r" /\ At(o + 1) = "#" /\ ident_start(At(o + 2))

\* C24: a call that scans from `r#` followed by an identifier start peeks
\* Ident with is_raw set, named by the run of identifier characters after
\* the `r#`, under a span from the `r`, and appends that one span to
\* raw_identifier_spans, also when the name is `_`, which cannot be raw and
\* is reported; any other call appends nothing, and one that scans from
\* another identifier start that opens no literal peeks an Ident that is not
\* raw.
RawIdentRecordsOneSpan ==
    [][IF RawIdentAt(pos)
       THEN /\ phase' = "ready"
            /\ peek_tok'.kind = "Ident"
            /\ peek_tok'.raw
            /\ peek_tok'.sym = Bytes(pos + 2, IdentRunEnd(pos + 2))
            /\ peek_span' = Span(pos, IdentRunEnd(pos + 2), NO_EXPANSION)
            /\ pos' = IdentRunEnd(pos + 2)
            /\ raw_identifier_spans' =
                   Append(raw_identifier_spans, peek_span')
            /\ IF peek_tok'.sym = <<"_">>
               THEN diags' = Append(diags,
                        Diag("error", "cannot be a raw identifier", peek_span'))
               ELSE diags' = diags
       ELSE /\ raw_identifier_spans' = raw_identifier_spans
            /\ (/\ ident_start(At(pos))
                /\ ~(At(pos) = "r" /\ At(pos + 1) \in {"#", "\""})) =>
                   /\ phase' = "ready"
                   /\ peek_tok'.kind = "Ident"
                   /\ ~peek_tok'.raw
                   /\ peek_tok'.sym = Bytes(pos, IdentRunEnd(pos))
                   /\ peek_span' = Span(pos, IdentRunEnd(pos), NO_EXPANSION)]_vars

\* `r#_ a` was scanned to its end: the raw identifier that cannot be raw
\* left its span and an error, the identifier after it left nothing.
RawIdentRecordsOneSpanWitness ==
    /\ src = <<"r", "#", "_", " ", "a">>
    /\ peek_tok.kind = "Eof"
    /\ raw_identifier_spans = <<Span(start_pos, start_pos + 3, NO_EXPANSION)>>
    /\ Len(diags) = 1
    /\ Len(returned) = 3
    /\ returned[1].tok.raw
    /\ returned[1].tok.sym = <<"_">>
    /\ returned[3].tok.kind = "Ident"
    /\ ~returned[3].tok.raw

\* The literal peeked in the next state has its body end at offset e: a
\* number has the text up to e as its symbol, any other literal has its
\* closing quote or hash before e.
BodyEndsAt(e) ==
    IF peek_tok'.sub \in {"Integer", "Float"}
    THEN peek_tok'.sym = Bytes(peek_span'.lo, e)
    ELSE At(e - 1) \in {"'", "\"", "#"}

\* The literal peeked in the next state carries as its suffix the run of
\* identifier characters that follows its body.
CarriesSuffix ==
    LET q == peek_tok'.suffix[1]
        hi == peek_span'.hi
    IN  /\ q = Bytes(hi - Len(q), hi)
        /\ ident_start(At(hi - Len(q)))
        /\ IdentRunEnd(hi - Len(q)) = hi
        /\ BodyEndsAt(hi - Len(q))

\* The literal peeked in the next state ends with its body, and no
\* identifier start follows it.
NoSuffixFollows ==
    /\ BodyEndsAt(peek_span'.hi)
    /\ ~ident_start(At(peek_span'.hi))

\* The literal peeked in the next state ends with the suffix `_`, which was
\* dropped with a warning.
UnderscoreDropped ==
    /\ At(peek_span'.hi - 1) = "_"
    /\ ~ident_continue(At(peek_span'.hi))
    /\ BodyEndsAt(peek_span'.hi - 1)
    /\ diags' = Append(diags,
           Diag("warning", "underscore literal suffix is not allowed",
                Span(peek_span'.hi - 1, peek_span'.hi, NO_EXPANSION)))

\* The literal peeked in the next state is the character literal the
\* lifetime branch recovers: a quote, a name of two characters or more, a
\* quote.
RecoveredChar ==
    /\ peek_tok'.sub = "Char"
    /\ LifetimeShaped(peek_span'.lo)
    /\ peek_span'.hi = IdentRunEnd(peek_span'.lo + 2) + 1

\* After a literal that a space follows, the next token is Whitespace.
WhitespaceAfterLiteral ==
    (phase = "ready" /\ peek_tok.kind = "Literal" /\ At(pos) = " ") =>
        (phase' = "ready" /\ peek_tok'.kind = "Whitespace")

\* C25, as stated: every literal followed by a run of identifier characters
\* carries the run as its suffix; one that no such run follows has no
\* suffix, and Whitespace comes next when a space separates the two.
EveryLiteralCarriesSuffix ==
    [][/\ (phase' = "ready" /\ peek_tok'.kind = "Literal") =>
              IF peek_tok'.suffix # <<>> THEN CarriesSuffix
                                         ELSE NoSuffixFollows
       /\ WhitespaceAfterLiteral]_vars

\* C25, amended: a literal followed by a run of identifier characters
\* carries the run as its suffix, except that the run `_` is consumed and
\* dropped with a warning, and that the character literal recovered from a
\* lifetime followed by a quote has no suffix and leaves the run to the next
\* token; a literal that no such run follows has no suffix, and Whitespace
\* comes next when a space separates the two.
LiteralCarriesSuffixButUnderscore ==
    [][/\ (phase' = "ready" /\ peek_tok'.kind = "Literal") =>
              IF peek_tok'.suffix # <<>>
              THEN CarriesSuffix
              ELSE IF RecoveredChar
                   THEN peek_tok'.sym =
                            Bytes(peek_span'.lo + 1, peek_span'.hi - 1)
              ELSE NoSuffixFollows \/ UnderscoreDropped
       /\ WhitespaceAfterLiteral]_vars

\* `r#"a"#s s` was scanned: the raw string carries the suffix, and
\* Whitespace follows.
LiteralCarriesSuffixButUnderscoreWitness ==
    /\ src = <<"r", "#", "\"", "a", "\"", "#", "s", " ", "s">>
    /\ Len(returned) = 1
    /\ returned[1].tok.sub = "StrRaw"
    /\ returned[1].tok.suffix = << <<"s">> >>
    /\ returned[1].sp = Span(start_pos, start_pos + 7, NO_EXPANSION)
    /\ peek_tok.kind = "Whitespace"

\* The offset after the run of underscores and digits of the radix from
\* offset o on.
RECURSIVE NumRunEnd(_, _)
NumRunEnd(o, radix) ==
    IF At(o) = "_" \/ is_digit(At(o), radix) THEN NumRunEnd(o + 1, radix) ELSE o

\* How many characters of [lo, hi) are no underscores.
DigitsIn(lo, hi) == Cardinality({i \in lo..(hi - 1) : At(i) # "_"})

\* The number at offset o has a base prefix.
HasBasePrefix(o) == At(o) = "0" /\ At(o + 1) \in {"b", "o", "x"}

\* The offset after the integer part of the number at offset o.
IntEnd(o) ==
    IF HasBasePrefix(o)
    THEN NumRunEnd(o + 2, IF At(o + 1) = "x" THEN 16 ELSE 10)
    ELSE NumRunEnd(o + 1, 10)

\* How many digits the integer part of the number at offset o has.
IntDigits(o) ==
    IF HasBasePrefix(o) THEN DigitsIn(o + 2, IntEnd(o))
                        ELSE 1 + DigitsIn(o + 1, IntEnd(o))

\* After the integer part of the number at offset o comes a dot followed by
\* no dot and no identifier start, or an exponent marker.
FloatShaped(o) ==
    \/ /\ At(IntEnd(o)) = "."
       /\ At(IntEnd(o) + 1) # "."
       /\ ~ident_start(At(IntEnd(o) + 1))
    \/ At(IntEnd(o)) \in {"e", "E"}

\* The offset after the run of identifier characters at o, o when there is
\* none.
SuffixEnd(o) == IF ident_start(At(o)) THEN IdentRunEnd(o) ELSE o

\* C26: a call that scans from a number whose integer part has a digit peeks
\* a Float when a dot followed by neither a dot nor an identifier start, or
\* an exponent marker, comes after the integer part, and otherwise an
\* Integer whose symbol is the integer part and whose token ends after it,
\* a suffix apart, so that a dot after it is left to the next call.
FloatIffDotOrExponent ==
    [][(At(pos) \in DecDigits /\ IntDigits(pos) > 0) =>
           /\ phase' = "ready"
           /\ peek_tok'.kind = "Literal"
           /\ peek_span'.lo = pos
           /\ IF FloatShaped(pos)
              THEN /\ peek_tok'.sub = "Float"
                   /\ peek_span'.hi > IntEnd(pos)
              ELSE /\ peek_tok'.sub = "Integer"
                   /\ peek_tok'.sym = Bytes(pos, IntEnd(pos))
                   /\ peek_span'.hi = SuffixEnd(IntEnd(pos))
                   /\ pos' = SuffixEnd(IntEnd(pos))]_vars

\* `1..1` was scanned: Integer, and the two dots in one token after it.
FloatIffDotOrExponentWitness ==
    /\ src = <<"1", ".", ".", "1">>
    /\ Len(returned) = 2
    /\ returned[1].tok.sub = "Integer"
    /\ returned[1].tok.sym = <<"1">>
    /\ returned[2].tok.kind = "DotDot"
    /\ peek_tok.sub = "Integer"

\* The offset where scan_number looks for the exponent of the float at
\* offset o: after the integer part, or after the digits of the fraction;
\* 0 when the dot is followed by no digit, and no exponent is looked for.
ExponentStart(o) ==
    IF At(IntEnd(o)) = "."
    THEN IF is_digit(At(IntEnd(o) + 1), 10)
         THEN NumRunEnd(IntEnd(o) + 1, 10)
         ELSE 0
    ELSE IntEnd(o)

\* The offset after the exponent marker at m and its sign.
AfterSign(m) == IF At(m + 1) \in {"-", "+"} THEN m + 2 ELSE m + 1

\* The number at offset o is a float with an exponent marker that no digit
\* follows.
MissingExponentDigits(o) ==
    /\ At(o) \in DecDigits
    /\ IntDigits(o) > 0
    /\ FloatShaped(o)
    /\ ExponentStart(o) # 0
    /\ At(ExponentStart(o)) \in {"e", "E"}
    /\ DigitsIn(AfterSign(ExponentStart(o)),
                NumRunEnd(AfterSign(ExponentStart(o)), 10)) = 0

\* C27, as stated: a call that scans from a number whose exponent marker and
\* sign are followed by no digit raises the fatal error, and peeks no
\* Literal for it.
MissingExponentDigitsIsFatal ==
    [][MissingExponentDigits(pos) =>
           /\ phase' = "raised"
           /\ peek_tok' = peek_tok]_vars

\* The no-digits error of scan_number.
NoValidDigits == "no valid digits found for number"

\* The diagnostics the step appends hold no no-digits error.
NoDigitsErrorNotReported ==
    \A i \in (Len(diags) + 1)..Len(diags') : diags'[i].msg # NoValidDigits

\* C28: a call that scans from a base prefix followed by no digit reports
\* the no-digits error once, over the prefix and the underscores, and peeks
\* Integer with the symbol `0`; no other call reports that error, and one
\* that scans from a `0` followed by none of b, o, x, a digit, `_`, `.`, `e`
\* and `E` peeks Integer with the symbol `0` and reports nothing.
NoDigitsOnlyAfterBasePrefix ==
    [][IF At(pos) \in DecDigits /\ IntDigits(pos) = 0
       THEN /\ HasBasePrefix(pos)
            /\ phase' = "ready"
            /\ peek_tok'.kind = "Literal"
            /\ peek_tok'.sub = "Integer"
            /\ peek_tok'.sym = <<"0">>
            /\ peek_span' = Span(pos, SuffixEnd(IntEnd(pos)), NO_EXPANSION)
            /\ diags' = Append(diags,
                   Diag("error", NoValidDigits,
                        Span(pos, IntEnd(pos), NO_EXPANSION)))
       ELSE /\ NoDigitsErrorNotReported
            /\ (/\ At(pos) = "0"
                /\ At(pos + 1) \notin DecDigits \cup
                       {"b", "o", "x", "_", ".", "e", "E"}) =>
                   /\ phase' = "ready"
                   /\ peek_tok'.kind = "Literal"
                   /\ peek_tok'.sub = "Integer"
                   /\ peek_tok'.sym = <<"0">>
                   /\ peek_span'.lo = pos
                   /\ diags' = diags]_vars

\* `0b_-` was scanned: the prefix and the underscore gave Integer with the
\* symbol `0` and the no-digits error, the sign after them is peeked.
NoDigitsOnlyAfterBasePrefixWitness ==
    /\ src = <<"0", "b", "_", "-">>
    /\ Len(returned) = 1
    /\ returned[1].tok.sym = <<"0">>
    /\ returned[1].sp = Span(start_pos, start_pos + 3, NO_EXPANSION)
    /\ Len(diags) = 1
    /\ diags[1].msg = NoValidDigits
    /\ peek_tok.kind = "BinOp"

\* An operator: its text, and the kind and operand of its token.
Op(text, kind, sub) == [text |-> text, kind |-> kind, sub |-> sub]

\* The operators of the arithmetic characters: the character alone, and
\* followed by `=`.
ArithmeticOps ==
    UNION {{Op(<<p[1]>>, "BinOp", p[2]), Op(<<p[1], "=">>, "BinOpEq", p[2])} :
           p \in {<<"+", "Plus">>, <<"-", "Minus">>, <<"*", "Star">>,
                  <<"/", "Slash">>, <<"%", "Percent">>, <<"^", "Caret">>,
                  <<"&", "And">>, <<"|", "Or">>}}

\* The operators the dispatcher lists for the characters of PunctStarts.
Operators ==
    ArithmeticOps \cup
    {Op(<<".">>, "Dot", ""), Op(<<".", ".">>, "DotDot", ""),
     Op(<<".", ".", ".">>, "DotDotDot", ""),
     Op(<<".", ".", "=">>, "DotDotEq", ""),
     Op(<<":">>, "Colon", ""), Op(<<":", ":">>, "ModSep", ""),
     Op(<<"=">>, "Eq", ""), Op(<<"=", "=">>, "EqEq", ""),
     Op(<<"=", ">">>, "FatArrow", ""),
     Op(<<"!">>, "Not", ""), Op(<<"!", "=">>, "Ne", ""),
     Op(<<"<">>, "Lt", ""), Op(<<"<", "=">>, "Le", ""),
     Op(<<"<", "<">>, "BinOp", "Shl"), Op(<<"<", "<", "=">>, "BinOpEq", "Shl"),
     Op(<<"<", "-">>, "LArrow", ""),
     Op(<<">">>, "Gt", ""), Op(<<">", "=">>, "Ge", ""),
     Op(<<">", ">">>, "BinOp", "Shr"), Op(<<">", ">", "=">>, "BinOpEq", "Shr"),
     Op(<<"-", ">">>, "RArrow", ""),
     Op(<<"&", "&">>, "AndAnd", ""), Op(<<"|", "|">>, "OrOr", "")}

\* The operators that are a prefix of the source at offset o.
OperatorsAt(o) ==
    {op \in Operators : \A i \in 1..Len(op.text) : At(o + i - 1) = op.text[i]}

\* The longest of them.
LongestOperatorAt(o) ==
    CHOOSE op \in OperatorsAt(o) :
        \A p \in OperatorsAt(o) : Len(p.text) <= Len(op.text)

\* C29: a call that scans from a punctuation character that opens no
\* comment peeks the longest operator that is a prefix of the source there,
\* under a span of exactly its characters, and leaves the cursor after it.
LongestOperatorWins ==
    [][(/\ OperatorsAt(pos) # {}
        /\ ~OpensBlock(pos)
        /\ ~(At(pos) = "/" /\ At(pos + 1) = "/")) =>
           /\ phase' = "ready"
           /\ peek_tok'.kind = LongestOperatorAt(pos).kind
           /\ peek_tok'.sub = LongestOperatorAt(pos).sub
           /\ peek_span' =
                  Span(pos, pos + Len(LongestOperatorAt(pos).text), NO_EXPANSION)
           /\ pos' = pos + Len(LongestOperatorAt(pos).text)]_vars

\* `<<=` was scanned as one token.
LongestOperatorWinsWitness ==
    /\ src = <<"<", "<", "=">>
    /\ last_call = "setup"
    /\ peek_tok.kind = "BinOpEq"
    /\ peek_tok.sub = "Shl"
    /\ peek_span = Span(start_pos, start_pos + 3, NO_EXPANSION)

\* A string or a byte string opens at offset o.
OpensString(o) == At(o) = "\"" \/ (At(o) = "b" /\ At(o + 1) = "\"")

\* The offset of the opening quote of the string that opens at o.
OpeningQuote(o) == IF At(o) = "b" THEN o + 1 ELSE o

\* Reading the body of a double-quoted string from offset o on, a backslash
\* followed by a backslash or a quote read as a pair: whether a quote outside
\* a pair comes before the end of the source, and the offset of the quote
\* or of the end.
RECURSIVE DoubleQuoteScan(_)
DoubleQuoteScan(o) ==
    IF At(o) = "\"" THEN [closed |-> TRUE, at |-> o]
    ELSE IF At(o) = None THEN [closed |-> FALSE, at |-> o]
    ELSE IF At(o) = "\\" /\ At(o + 1) \in {"\"", "\\"}
         THEN DoubleQuoteScan(o + 2)
    ELSE DoubleQuoteScan(o + 1)

\* C31: a call that scans from the opening of a string or a byte string
\* peeks the Str or ByteStr literal whose symbol is the source text between
\* the opening quote and the first quote that is not the second character of
\* a backslash pair, the token ending after that quote, a suffix apart; when
\* the source ends before such a quote the call raises the fatal
\* unterminated error, spanning from the opening quote to the end.
DoubleQuotedEndsAtFirstQuote ==
    [][OpensString(pos) =>
           LET q == OpeningQuote(pos)
               e == DoubleQuoteScan(OpeningQuote(pos) + 1)
           IN  IF e.closed
               THEN /\ phase' = "ready"
                    /\ peek_tok'.kind = "Literal"
                    /\ peek_tok'.sub =
                           (IF At(pos) = "b" THEN "ByteStr" ELSE "Str")
                    /\ peek_tok'.sym = Bytes(q + 1, e.at)
                    /\ peek_span'.lo = pos
                    /\ peek_span'.hi = SuffixEnd(e.at + 1)
                    /\ pos' = SuffixEnd(e.at + 1)
               ELSE /\ phase' = "raised"
                    /\ diags' = Append(diags,
                           Diag("fatal",
                                IF At(pos) = "b"
                                THEN "unterminated double quote byte string"
                                ELSE "unterminated double quote string",
                                Span(q, e.at, NO_EXPANSION)))
                    /\ fatal_errs' = <<>>
                    /\ returned' = returned]_vars

\* The byte string b"\"" was scanned: the quote after the backslash is body,
\* the one after it closes the literal.
DoubleQuotedEndsAtFirstQuoteWitness ==
    /\ src = <<"b", "\"", "\\", "\"", "\"">>
    /\ last_call = "setup"
    /\ peek_tok.sub = "ByteStr"
    /\ peek_tok.sym = <<"\\", "\"">>
    /\ peek_span = Span(start_pos, start_pos + 5, NO_EXPANSION)

\* The error of a raw string that holds a bare CR.
BareCrInRawString == "bare CR not allowed in raw string, use \\r instead"

\* The levels of the diagnostics that are no fatal errors.
RecoverableLevels == {"error", "warning"}

\* The step reports something, and nothing but recoverable errors.
ReportsRecoverable ==
    /\ Len(diags') > Len(diags)
    /\ SubSeq(diags', 1, Len(diags)) = diags
    /\ \A i \in (Len(diags) + 1)..Len(diags') :
           diags'[i].level \in RecoverableLevels

\* The token in the peek buffer is one a recoverable error was reported
\* for, and nothing waits in fatal_errs.
PeekedFlawed ==
    /\ phase = "ready"
    /\ fatal_errs = <<>>
    /\ peek_tok.kind \notin {"Eof", "Whitespace"}
    /\ \E i \in 1..Len(diags) :
           /\ diags[i].level \in RecoverableLevels
           /\ diags[i].sp.lo >= peek_span.lo
           /\ diags[i].sp.hi <= peek_span.hi

\* A scan that reports recoverable errors only peeks a token over the bytes
\* it went through and leaves fatal_errs alone.
RecoverableKeepsToken ==
    ReportsRecoverable =>
        /\ phase' = "ready"
        /\ fatal_errs' = fatal_errs
        /\ peek_tok'.kind \notin {"Eof", "Whitespace"}
        /\ pos' > pos
        /\ peek_span' = Span(pos, pos', NO_EXPANSION)
        /\ peek_span_src_raw' = peek_span'
        /\ (\E i \in 1..Len(diags') : diags'[i].msg = BareCrInRawString) =>
               peek_tok'.sym = <<"?", "?">>

\* C32, as stated: a scan that reports recoverable errors only still peeks
\* its token, under the span of the bytes scanned, with fatal_errs as it
\* was; and the next try_next_token returns Ok.
RecoverableNeverStopsStream ==
    [][/\ RecoverableKeepsToken
       /\ (PeekedFlawed /\ last_call' = "try_next_token") =>
              ret'.kind = "Ok"]_vars

\* C32, amended: a scan that reports recoverable errors only still peeks
\* its token, under the span of the bytes scanned, with fatal_errs as it
\* was; the next try_next_token returns that token, unless the scan of the
\* token after it fails, and then it returns Err with the fatal error of
\* that later token in fatal_errs, or raises.
RecoverableKeepsStreamUnlessNextFails ==
    [][/\ RecoverableKeepsToken
       /\ (PeekedFlawed /\ last_call' = "try_next_token") =>
              \/ /\ ret'.kind = "Ok"
                 /\ ret'.tok = peek_tok
                 /\ ret'.sp = peek_span
              \/ /\ ret'.kind = "Err"
                 /\ Len(fatal_errs') = 1
                 /\ fatal_errs'[1].sp.lo = pos
              \/ phase' = "raised"]_vars

\* `0b2 ` was read with setup and one try_next_token: the digit was
\* reported, and the Integer was returned.
RecoverableKeepsStreamUnlessNextFailsWitness ==
    /\ src = <<"0", "b", "2", " ">>
    /\ last_call = "try_next_token"
    /\ ret.kind = "Ok"
    /\ ret.tok.sub = "Integer"
    /\ ret.tok.sym = <<"0", "b", "2">>
    /\ ret.sp = Span(start_pos, start_pos + 3, NO_EXPANSION)
    /\ Len(diags) = 1
    /\ diags[1].level = "error"
    /\ fatal_errs = <<>>
    /\ peek_tok.kind = "Whitespace"

\* C33, as stated: the raw span kept beside the peeked token never takes
\* override_span into account: after every call that refills the peek
\* buffer it is the span, without expansion, of the bytes of the token
\* peeked, whatever its kind and whether or not an override span is set.
RawSpanIgnoresOverride ==
    [][(last_call' \in TokenCalls \cup Constructors /\ phase' = "ready"
            /\ ret'.kind # "Err") =>
           /\ peek_span_src_raw'.ctxt = NO_EXPANSION
           /\ peek_span_src_raw'.lo >= pos
           /\ peek_span_src_raw'.hi = pos']_vars

\* How many of the tokens returned so far are not Eof.
NonEofReturned ==
    Cardinality({i \in 1..Len(returned) : returned[i].tok.kind # "Eof"})

ErrLosesPeekedToken ==
    (last_call' = "try_next_token" /\ ret'.kind = "Err") =>
        /\ peek_tok' = Plain("Whitespace")
        /\ peek_span' = peek_span
        /\ returned' = returned
        /\ pos' = pos
        /\ next_pos' = next_pos
        /\ ch' = ch
        /\ span_src_raw' = span_src_raw

\* The caller holds a reader that failed on an unknown start of token and
\* whose fatal_errs were drained.
DrainedAfterErr == phase = "ready" /\ Stuck /\ fatal_errs = <<>>

\* After the draining, peek shows the Whitespace left in the peek buffer.
PeekShowsPlaceholder ==
    (DrainedAfterErr /\ last_call' = "peek") =>
        /\ ret'.kind = "Ok"
        /\ ret'.tok = Plain("Whitespace")
        /\ ret'.sp = peek_span

\* C36, as stated: a try_next_token that returns Err loses the token of the
\* peek buffer and leaves Whitespace under its span, with pos, next_pos, ch
\* and span_src_raw unchanged; a later call after the draining returns that
\* Whitespace.
ErrLosesTokenLaterCallReturnsPlaceholder ==
    [][/\ ErrLosesPeekedToken
       /\ PeekShowsPlaceholder
       /\ (DrainedAfterErr /\ last_call' = "try_next_token") =>
              /\ ret'.kind = "Ok"
              /\ ret'.tok = Plain("Whitespace")]_vars

\* C36, amended: a try_next_token that returns Err loses the token of the
\* peek buffer and leaves Whitespace under its span, with pos, next_pos, ch
\* and span_src_raw unchanged; after the draining peek shows that
\* Whitespace, and a later try_next_token returns Err again, returning
\* neither the Whitespace nor the lost token.
ErrLosesTokenLaterCallFailsAgain ==
    [][/\ ErrLosesPeekedToken
       /\ PeekShowsPlaceholder
       /\ (DrainedAfterErr /\ last_call' = "try_next_token") =>
              /\ ret'.kind = "Err"
              /\ returned' = returned
              /\ peek_tok' = Plain("Whitespace")
              /\ peek_span' = peek_span]_vars

\* An identifier before a character that starts no token: try_next_token
\* failed, the caller drained fatal_errs, and peek shows Whitespace under the
\* span of the identifier, which was never returned.
ErrLosesTokenLaterCallFailsAgainWitness ==
    /\ src = <<"a">> \o Utf8("U+20AC")
    /\ override_span = <<>>
    /\ last_call = "peek"
    /\ drained = 1
    /\ fatal_errs = <<>>
    /\ returned = <<>>
    /\ ret.tok = Plain("Whitespace")
    /\ ret.sp = Span(start_pos, start_pos + 1, NO_EXPANSION)
    /\ pos = start_pos + 1

\* The panics of the dispatcher: the expect of next_token_inner, the
\* unreachable arm after a `b`, and the assertion of scan_digits.
DispatcherPanics ==
    {"next_token_inner called at EOF", "unreachable",
     "assertion failed: real_radix <= scan_radix"}

\* What may follow a `b`, and an `r`, that is not the start of an identifier.
AfterBPrefix(o) ==
    \/ At(o + 1) \in {"'", "\""}
    \/ (At(o + 1) = "r" /\ At(o + 2) \in {"\"", "#"})

AfterRPrefix(o) == At(o + 1) \in {"\"", "#"}

\* C37: no call ends in the expect of next_token_inner, in the unreachable
\* arm after a `b` or in the assertion of scan_digits; a scan that starts at
\* a `b` followed by none of a quote, a double quote, `r"` and `r#`, or at an
\* `r` followed by neither a double quote nor a hash, takes the identifier
\* arm: when it succeeds it peeks an identifier.
NoDispatcherPanic ==
    [][/\ phase' \notin DispatcherPanics
       /\ (/\ last_call' \in TokenCalls \cup Constructors
           /\ phase' = "ready"
           /\ \/ (At(pos) = "b" /\ ~AfterBPrefix(pos))
              \/ (At(pos) = "r" /\ ~AfterRPrefix(pos)))
          => peek_tok'.kind = "Ident"]_vars

\* The `b` arm has found the double quote of a byte string after the `b`.
NoDispatcherPanicWitness ==
    /\ src = <<"b", "\"", "\"">>
    /\ phase = "ready"
    /\ last_call = "setup"
    /\ peek_tok.kind = "Literal"
    /\ peek_tok.sub = "ByteStr"
    /\ pos = start_pos + 3

\* The message of translate_crlf for a block doc comment.
BareCrInBlockDoc == "bare CR not allowed in block doc-comment"

\* One error for every carriage return of the source from offset o up to hi
\* that no line feed follows, in the order of the source.
RECURSIVE BareCrErrors(_, _)
BareCrErrors(o, hi) ==
    IF o >= hi
    THEN <<>>
    ELSE (IF At(o) = "\r" /\ At(o + 1) # "\n"
          THEN <<Diag("error", BareCrInBlockDoc,
                      Span(o, o + 1, NO_EXPANSION))>>
          ELSE <<>>) \o BareCrErrors(o + 1, hi)

\* The bare-CR errors reported so far.
ReportedBareCrs ==
    SelectSeq(diags, LAMBDA d : d.msg = BareCrInBlockDoc)

\* C38: for every block doc comment scanned, the bare-CR errors reported
\* are exactly one for each carriage return of the comment that no line feed
\* follows, before or after a CR LF pair, under the span of that carriage
\* return, and none for a carriage return a line feed follows; the text
\* interned for a comment without a CR LF pair is its source text.
OneErrorPerBareCr ==
    \A t \in ScannedTokens :
        (OpensBlock(t.sp.lo) /\ t.tok.kind = "DocComment") =>
            /\ ReportedBareCrs = BareCrErrors(t.sp.lo, t.sp.hi)
            /\ ~HasCrLf(Slice(t.sp)) => t.tok.sym = Slice(t.sp)

\* A block doc comment with a bare carriage return between two CR LF pairs:
\* one error, under the bare carriage return.
OneErrorPerBareCrWitness ==
    /\ src = <<"/", "*", "*", "\r", "\n", "\r", "\r", "\n", "*", "/">>
    /\ phase = "ready"
    /\ peek_tok.kind = "DocComment"
    /\ ReportedBareCrs = <<Diag("error", BareCrInBlockDoc,
                                Span(start_pos + 5, start_pos + 6,
                                     NO_EXPANSION))>>

\* A character literal of one plain character opens at offset o: the
\* single-quoted scanner reads it.
OneCharLiteral(o) ==
    /\ At(o) = "'"
    /\ At(o + 1) \notin {"\\", "'", None}
    /\ At(o + 2) = "'"

\* The Char peeked in the next state is the one the lifetime branch
\* recovers, and it has no suffix.
RecoveredCharWithoutSuffix ==
    (phase' = "ready" /\ peek_tok'.sub = "Char"
        /\ LifetimeShaped(peek_span'.lo)) =>
        /\ peek_tok'.suffix = <<>>
        /\ peek_tok'.sym = Bytes(peek_span'.lo + 1, peek_span'.hi - 1)
        /\ peek_span'.hi = IdentRunEnd(peek_span'.lo + 2) + 1

\* The run of identifier characters after a recovered Char is the next
\* token, an Ident.
RunAfterRecoveredCharIsIdent ==
    (/\ phase = "ready"
     /\ peek_tok.sub = "Char"
     /\ LifetimeShaped(peek_span.lo)
     /\ ident_start(At(pos))
     /\ last_call' \in TokenCalls) =>
        /\ phase' = "ready"
        /\ peek_tok'.kind = "Ident"
        /\ peek_tok'.sym = Bytes(pos, IdentRunEnd(pos))
        /\ peek_span' = Span(pos, IdentRunEnd(pos), NO_EXPANSION)

\* C39, as stated: the Char recovered by the lifetime branch has no suffix
\* and the run of identifier characters after it is the next token, an
\* Ident; the Char of one character read by the single-quoted scanner has
\* the run after it as its suffix.
RecoveredCharLeavesRunOthersCarryIt ==
    [][/\ RecoveredCharWithoutSuffix
       /\ RunAfterRecoveredCharIsIdent
       /\ (/\ phase' = "ready"
           /\ peek_tok'.sub = "Char"
           /\ OneCharLiteral(peek_span'.lo)
           /\ ident_start(At(peek_span'.lo + 3))) =>
              /\ peek_tok'.suffix =
                     <<Bytes(peek_span'.lo + 3,
                             IdentRunEnd(peek_span'.lo + 3))>>
              /\ peek_span'.hi = IdentRunEnd(peek_span'.lo + 3)]_vars

\* C39, amended: the Char recovered by the lifetime branch has no suffix and
\* the run of identifier characters after it is the next token, an Ident;
\* the Char of one character read by the single-quoted scanner has the run
\* after it inside the token, as its suffix unless the run is `_` alone,
\* which leaves the token without suffix.
RecoveredCharLeavesRunOthersConsumeIt ==
    [][/\ RecoveredCharWithoutSuffix
       /\ RunAfterRecoveredCharIsIdent
       /\ (/\ phase' = "ready"
           /\ peek_tok'.sub = "Char"
           /\ OneCharLiteral(peek_span'.lo)
           /\ ident_start(At(peek_span'.lo + 3))) =>
              /\ peek_span'.hi = IdentRunEnd(peek_span'.lo + 3)
              /\ peek_tok'.suffix =
                     IF Bytes(peek_span'.lo + 3, peek_span'.hi) = <<"_">>
                     THEN <<>>
                     ELSE <<Bytes(peek_span'.lo + 3, peek_span'.hi)>>]_vars

\* The Char of two characters was returned without suffix and the run after
\* it is peeked as an Ident.
RecoveredCharLeavesRunOthersConsumeItWitness ==
    /\ src = <<"'", "a", "b", "'", "s", "s">>
    /\ Len(returned) = 1
    /\ returned[1].tok.sub = "Char"
    /\ returned[1].tok.suffix = <<>>
    /\ returned[1].sp = Span(start_pos, start_pos + 4, NO_EXPANSION)
    /\ peek_tok.kind = "Ident"
    /\ peek_tok.sym = <<"s", "s">>

\* The span of every Eof: the override span, or the empty span at the end
\* of the file.
EofSpan ==
    IF override_span # <<>>
    THEN override_span[1]
    ELSE Span(end_pos, end_pos, NO_EXPANSION)

\* The range of the reader ends before the end of its file.
EndsBeforeFile == start_pos + end_src_index < end_pos

\* C40: every Eof scanned, by a reader made by retokenize too, has the
\* override span or else the empty span at the end_pos of the file; when the
\* range of the reader ends before the end of the file, the Eof that comes
\* after a token starts after the end of that token.
EofSpanIsFileEnd ==
    /\ \A t \in ScannedTokens : t.tok.kind = "Eof" => t.sp = EofSpan
    /\ (phase = "ready" /\ peek_tok.kind = "Eof") =>
           peek_span_src_raw = Span(end_pos, end_pos, NO_EXPANSION)
    /\ \A i \in 2..Len(ScannedSeq) :
           (/\ ScannedSeq[i].tok.kind = "Eof"
            /\ ScannedSeq[i - 1].tok.kind # "Eof"
            /\ override_span = <<>>
            /\ EndsBeforeFile) =>
               ScannedSeq[i].sp.lo > ScannedSeq[i - 1].sp.hi

\* The first byte of `a a` was retokenized: the identifier was returned and
\* the Eof peeked lies two bytes after its end.
EofSpanIsFileEndWitness ==
    /\ src = <<"a", " ", "a">>
    /\ retokenized = <<Span(start_pos, start_pos + 1, NO_EXPANSION)>>
    /\ Len(returned) = 1
    /\ returned[1].tok.kind = "Ident"
    /\ returned[1].sp.hi = start_pos + 1
    /\ phase = "ready"
    /\ peek_tok.kind = "Eof"
    /\ peek_span = Span(start_pos + 3, start_pos + 3, NO_EXPANSION)

====
